---- MODULE Spec2Model ----
(***************************************************************************)
(* Light-wallet synchronisation engine: src/src/wallet/wallet_node.py      *)
(* (class WalletNode).  The model follows the asyncio execution of the     *)
(* code: a coroutine runs atomically from one await to the next, so every  *)
(* action below is one such segment of _respond_header / _block_finished   *)
(* or of _sync.  The WalletStateManager lives outside wallet_node.py; its  *)
(* operations are modelled from the interface description.                 *)
(***************************************************************************)
EXTENDS Integers, Sequences, FiniteSets, Bags, TLC

VARIABLES
    wallet_state_manager,       \* TRUE: a state manager is attached, FALSE: None
    backup_initialized,
    server,                     \* TRUE: a server is attached, FALSE: None
    shut_down,                  \* self._shut_down
    block_records,              \* wallet_state_manager.block_records (its keys)
    lca,                        \* wallet_state_manager.lca
    sync_mode,                  \* wallet_state_manager.sync_mode
    cached_blocks,              \* keys of self.cached_blocks
    future_block_hashes,        \* prev hash -> hash
    potential_blocks_received,  \* height -> is the asyncio.Event set
    potential_header_hashes,    \* height -> hash
    header_hashes,              \* skeleton received during sync (a list)
    header_hashes_error,
    proof_hashes,               \* total_iters per height, received during sync
    starting_height,            \* config["starting_height"]
    new_wallet,                 \* wallet_state_manager.new_wallet
    sync,                       \* the running _sync coroutine: position and locals
    sync_outcome,               \* how the last _sync run ended
    runs,                       \* _sync runs started so far
    tasks,                      \* the running _respond_header coroutines
    peer_headers,               \* the headers the peer can send
    pushed,                     \* those it sends without being asked
    sent,                       \* history: every message handed to the transport
    submitted,                  \* history: every record handed to receive_block
    delivered,                  \* history: headers delivered at least once
    errors,                     \* history: exceptions raised out of a coroutine
    keychain,                   \* fingerprints of the private keys, in keychain order
    user_settings,              \* fingerprints whose database has user_initialized set
    start_task,                 \* the running _start coroutine: position and arguments
    start_result,               \* what the last _start returned
    wsm_close_task,             \* the close_all_stores task of _close
    stores_open,                \* the stores of the state manager are open
    callbacks,                  \* callbacks registered on the state manager
    state_changed_callback,     \* self.state_changed_callback is set
    checks,                     \* tries of the live _periodically_check_full_node tasks
    closing,                    \* the running _await_closed coroutine
    tx_store,                   \* records returned by tx_store.get_not_sent()
    action_store,               \* actions returned by get_all_pending_actions()
    resend,                     \* the _on_connect and _resend_queue coroutines
    outbox,                     \* history: messages of the resend paths, with destination
    full_node_peer,             \* config["full_node_peer"]
    connections,                \* peer infos of server.get_full_node_connections()
    closed,                     \* history: connections has_full_node asked to close
    wallet_peers_open,          \* discovery (self.wallet_peers) is running
    found                       \* history: return values of has_full_node

vars == << wallet_state_manager, backup_initialized, server, shut_down,
           block_records, lca, sync_mode, cached_blocks, future_block_hashes,
           potential_blocks_received, potential_header_hashes, header_hashes,
           header_hashes_error, proof_hashes, starting_height, new_wallet,
           sync, sync_outcome, runs, tasks, peer_headers, pushed,
           sent, submitted, delivered, errors,
           keychain, user_settings, start_task, start_result, wsm_close_task,
           stores_open, callbacks, state_changed_callback, checks, closing,
           tx_store, action_store, resend, outbox,
           full_node_peer, connections, closed, wallet_peers_open, found >>

\* The state of the lifecycle facade, the resend loop and the peer policy.
life_vars == << keychain, user_settings, start_task, start_result,
                wsm_close_task, stores_open, callbacks, state_changed_callback,
                checks, closing >>
resend_vars == << tx_store, action_store, resend, outbox >>
peer_vars == << full_node_peer, connections, closed, wallet_peers_open, found >>

\* The state of the header handler and of _sync.
chain_vars == << block_records, lca, sync_mode, cached_blocks,
                 future_block_hashes, potential_blocks_received,
                 potential_header_hashes, header_hashes, header_hashes_error,
                 proof_hashes, sync, sync_outcome, runs, tasks, peer_headers,
                 pushed, sent, submitted, delivered, errors >>

(***************************************************************************)
(* Bounds of the model.                                                    *)
(***************************************************************************)
LcaHeight == 102        \* height of the committed chain of a running wallet
NumNew == 2             \* blocks the peer has beyond that chain
MaxTasks == 2           \* coroutines (_respond_header, _sync) in flight at once
MaxStall == 1           \* sleep intervals of a sync wait after which the peer stays silent
OldHeight == 2          \* height of a stale side block the peer still serves

(***************************************************************************)
(* Program constants.                                                      *)
(***************************************************************************)
short_sync_threshold == 15
EvictionDepth == 100
timeout == 50
sleep_interval == 3
sleep_interval_short == 1
TipLag == 5
MaxSamples == 100

(***************************************************************************)
(* Header hashes.  A hash below SideBase is the main-chain block of that   *)
(* height.  SideBase + h is a sibling of main block h (same parent), and   *)
(* 2 * SideBase + h is the child of the sibling at height h - 1.           *)
(***************************************************************************)
SideBase == 1000
NoHash == 0 - 1

Main(h) == h
Sib(h) == SideBase + h
SibChild(h) == 2 * SideBase + h

Height(b) == b % SideBase

PrevHash(b) ==
    IF b < SideBase THEN b - 1
    ELSE IF b < 2 * SideBase THEN Height(b) - 1
    ELSE Sib(Height(b) - 1)

Weight(b) == Height(b)

EmptyMap == [x \in {} |-> NoHash]

Put(f, k, v) == [x \in (DOMAIN f) \cup {k} |-> IF x = k THEN v ELSE f[x]]

(***************************************************************************)
(* The peer's blocks.  Invalid blocks are rejected by the consensus        *)
(* verifier; Interesting blocks carry coins of the wallet.                 *)
(***************************************************************************)
Invalid == { Sib(1) }
Interesting == { SibChild(1), Sib(OldHeight + 2) }

SteadyHeaders ==
    { Main(h) : h \in (LcaHeight + 1)..(LcaHeight + NumNew) }
        \cup { Sib(LcaHeight + 2), Sib(OldHeight), SibChild(OldHeight + 1) }

(***************************************************************************)
(* WalletStateManager (interface only).                                    *)
(***************************************************************************)
receive_block_result(br, l, b) ==
    IF b \in br THEN "ALREADY_HAVE_BLOCK"
    ELSE IF PrevHash(b) \notin br THEN "DISCONNECTED_BLOCK"
    ELSE IF b \in Invalid THEN "INVALID_BLOCK"
    ELSE IF Weight(b) > Weight(l) THEN "ADDED_TO_HEAD"
    ELSE "ADDED_AS_ORPHAN"

Added(res) == res \in {"ADDED_TO_HEAD", "ADDED_AS_ORPHAN"}

get_filter_additions_removals(b) == b \in Interesting

(***************************************************************************)
(* The part of the state a coroutine segment works on, with the position   *)
(* (pc), the current response (resp) and the exception raised (err).       *)
(***************************************************************************)
SyncIdle ==
    [ pc |-> "idle", fork |-> 0, tip |-> 0, hvs |-> 0, query |-> << >>,
      odd |-> {}, i |-> 0, j |-> 0, total |-> 0, due |-> TRUE, highest |-> 0,
      made |-> FALSE, elapsed |-> 0, hh |-> NoHash, hpc |-> "done",
      hresp |-> NoHash, committed0 |-> {}, prev |-> "none", hashes0 |-> << >> ]

Core ==
    [ br |-> block_records, lca |-> lca, cached |-> cached_blocks,
      future |-> future_block_hashes, pbr |-> potential_blocks_received,
      phh |-> potential_header_hashes, hashes |-> header_hashes,
      hashes_error |-> header_hashes_error, proofs |-> proof_hashes,
      start |-> starting_height, y |-> sync, outcome |-> sync_outcome,
      sent |-> sent, submitted |-> submitted,
      pc |-> "done", resp |-> NoHash, err |-> "" ]

Return(m) == [m EXCEPT !.pc = "done"]
Raise(m, e) == [m EXCEPT !.pc = "done", !.err = e]
Await(m, where, b) == [m EXCEPT !.pc = where, !.resp = b]
Send(m, msg) == [m EXCEPT !.sent = @ \cup {msg}]

RequestHeader(h, hh) == [type |-> "request_header", height |-> h, hash |-> hh]
RequestAdditions(h, hh) == [type |-> "request_additions", height |-> h, hash |-> hh]
RequestAllHeaderHashesAfter ==
    [type |-> "request_all_header_hashes_after", height |-> 0, hash |-> NoHash]
RequestAllProofHashes ==
    [type |-> "request_all_proof_hashes", height |-> 0, hash |-> NoHash]

(***************************************************************************)
(* _respond_header, one turn of its loop up to the first await.            *)
(***************************************************************************)
NeedsPrevRequestUpTo(m, b) ==
    Height(b) - Height(m.lca) <= short_sync_threshold /\ ~sync_mode

NeedsPrevRequest(m, b) ==
    Height(b) - Height(m.lca) < short_sync_threshold /\ ~sync_mode

SignalPotential(m, b) ==
    IF sync_mode /\ Height(b) \in DOMAIN m.pbr
    THEN [m EXCEPT !.pbr[Height(b)] = TRUE, !.phh = Put(@, Height(b), b)]
    ELSE m

RecordFutureChained(m, b) ==
    IF PrevHash(b) \in DOMAIN m.future
    THEN [m EXCEPT !.future = Put(@, m.future[PrevHash(b)], b)]
    ELSE [m EXCEPT !.future = Put(@, PrevHash(b), b)]

RecordFuture(m, b) == [m EXCEPT !.future = Put(@, PrevHash(b), b)]

PrevMissing(m, b) == PrevHash(b) \notin m.br

respond_header_head(m, b) ==
    IF shut_down THEN Return(m)
    ELSE IF ~wallet_state_manager THEN Raise(m, "AttributeError")
    ELSE IF b \in m.br THEN Return(m)
    ELSE IF Height(b) < 1 THEN Return(m)
    ELSE LET m1 == SignalPotential(m, b)
             m2 == [m1 EXCEPT !.cached = @ \cup {b}]
         IN  IF PrevMissing(m2, b)
             THEN LET m3 == RecordFuture(m2, b)
                  IN  IF NeedsPrevRequest(m3, b)
                      THEN Await(Send(m3, RequestHeader(Height(b) - 1, PrevHash(b))),
                                 "send", b)
                      ELSE Return(m3)
             ELSE Await(m2, "filter", b)

(***************************************************************************)
(* _respond_header after get_filter_additions_removals, into               *)
(* _block_finished up to its await of receive_block.                       *)
(***************************************************************************)
PrevCommitted(m, b) == PrevHash(b) \in m.br

SubmitRecord(m, b, prev, who) ==
    [m EXCEPT !.submitted = @ \cup
        {[hash |-> b, by |-> who, parent_ok |-> prev \in m.br]}]

Submit(m, b, who) == SubmitRecord(m, b, PrevHash(b), who)

block_finished_enter(m, b) ==
    IF ~wallet_state_manager \/ ~backup_initialized THEN Return(m)
    ELSE IF ~PrevCommitted(m, b) THEN Raise(m, "AssertionError")
    ELSE Await(Submit(m, b, "handler"), "receive", b)

respond_header_filtered(m, b) ==
    IF get_filter_additions_removals(b)
    THEN Await(Send(m, RequestAdditions(Height(b), b)), "send", b)
    ELSE block_finished_enter(m, b)

(***************************************************************************)
(* _block_finished from the result of receive_block, then the next turn    *)
(* of the loop of _respond_header.                                         *)
(***************************************************************************)
OutdatedLate(h, tip) == tip - h > EvictionDepth + 1

Outdated(h, tip) == tip - h > EvictionDepth

Evict(m, b) == [m EXCEPT !.cached = {c \in @ : ~Outdated(Height(c), Height(b))}]

ApplyReceive(m, b, res) ==
    IF Added(res)
    THEN [m EXCEPT !.br = @ \cup {b},
                   !.lca = IF res = "ADDED_TO_HEAD" THEN b ELSE @]
    ELSE m

NextBlockDropped(m, b) == Return(m)

NextBlock(m, b) ==
    IF b \in DOMAIN m.future
    THEN IF m.future[b] \in m.cached
         THEN respond_header_head(m, m.future[b])
         ELSE Raise(m, "KeyError")
    ELSE Return(m)

block_finished_rewalks(m, b) ==
    LET res == receive_block_result(m.br, m.lca, b)
        m1 == ApplyReceive(m, b, res)
    IN  IF res = "ALREADY_HAVE_BLOCK" THEN NextBlock(m1, b)
        ELSE IF ~Added(res) THEN Return(m1)
        ELSE IF res = "ADDED_AS_ORPHAN" THEN NextBlock(m1, b)
        ELSE IF ~wallet_state_manager THEN Raise(m1, "AttributeError")
        ELSE IF ~sync_mode THEN NextBlock(Evict(m1, b), b)
        ELSE NextBlock(m1, b)

block_finished_walks_on(m, b) ==
    LET res == receive_block_result(m.br, m.lca, b)
        m1 == ApplyReceive(m, b, res)
    IN  IF res = "ADDED_TO_HEAD" /\ ~wallet_state_manager
        THEN Raise(m1, "AttributeError")
        ELSE IF res = "ADDED_TO_HEAD" /\ ~sync_mode THEN NextBlock(Evict(m1, b), b)
        ELSE NextBlock(m1, b)

block_finished_result(m, b) ==
    LET res == receive_block_result(m.br, m.lca, b)
        m1 == ApplyReceive(m, b, res)
    IN  IF ~Added(res) THEN Return(m1)
        ELSE IF res = "ADDED_AS_ORPHAN" THEN NextBlock(m1, b)
        ELSE IF ~wallet_state_manager THEN Raise(m1, "AttributeError")
        ELSE IF ~sync_mode THEN NextBlock(Evict(m1, b), b)
        ELSE NextBlock(m1, b)

(***************************************************************************)
(* Writing a segment's result back, and the task table.                    *)
(***************************************************************************)
Store(m) ==
    /\ block_records' = m.br
    /\ lca' = m.lca
    /\ cached_blocks' = m.cached
    /\ future_block_hashes' = m.future
    /\ potential_blocks_received' = m.pbr
    /\ potential_header_hashes' = m.phh
    /\ header_hashes' = m.hashes
    /\ header_hashes_error' = m.hashes_error
    /\ proof_hashes' = m.proofs
    /\ starting_height' = m.start
    /\ sync' = m.y
    /\ sync_outcome' = m.outcome
    /\ sent' = m.sent
    /\ submitted' = m.submitted
    /\ errors' = IF m.err = "" THEN errors ELSE errors \cup {m.err}

Task(p, b) == [pc |-> p, resp |-> b]

\* Nothing but the return follows the await of a send in _respond_header, so
\* a task that reached it is not kept in the table.
TaskAfter(m) ==
    IF m.pc \in {"done", "send"} THEN EmptyBag
    ELSE SetToBag({Task(m.pc, m.resp)})

(***************************************************************************)
(* Keys, backup files, peers, transactions and actions the environment     *)
(* offers to the lifecycle facade, the resend loop and the peer policy.    *)
(***************************************************************************)
NumKeys == 2                \* private keys a keychain holds at most
MaxCalls == 2               \* _on_connect and _resend_queue coroutines started
MaxChecks == 1              \* _periodically_check_full_node tasks alive at once
BackupStartHeight == 4      \* start_height recorded in a backup file

NoFingerprint == 0          \* fingerprint None, and private_key None
Fingerprints == 1..NumKeys

NoFile == 0 - 2             \* backup_file None
NoStartHeight == 0 - 1      \* a backup file without "start_height"
BackupFiles == { NoFile, NoStartHeight, 0, BackupStartHeight }

StartIdle ==
    [ pc |-> "idle", key |-> NoFingerprint, new_wallet |-> FALSE,
      skip_backup_import |-> FALSE, backup_file |-> NoFile ]

PeerInfo(host, port) == [ host |-> host, port |-> port ]
NoPeer == PeerInfo("", 0)                   \* "full_node_peer" not in config
Pinned == PeerInfo("node.example", 8444)
PinnedByAddress == PeerInfo("10.0.0.1", 8444)
Other == PeerInfo("10.0.0.2", 8444)
AllFullNodes == PeerInfo("*", 0)            \* destination of send_to_all
PeerInfos == { Pinned, PinnedByAddress, Other }

gethostbyname(host) == IF host = "node.example" THEN "10.0.0.1" ELSE host

\* Lists get_not_sent() returns: records with and without a spend bundle.
TxRecords ==
    << [ name |-> 1, spend_bundle |-> "B1" ],
       [ name |-> 2, spend_bundle |-> "none" ],
       [ name |-> 3, spend_bundle |-> "B2" ] >>
TxStores == { << >>, SubSeq(TxRecords, 1, 2), TxRecords }

\* Lists get_all_pending_actions() returns.
ActionStores ==
    { << >>,
      << [ name |-> "request_generator", height |-> 5, header_hash |-> Main(5) ],
         [ name |-> "other", height |-> 6, header_hash |-> Main(6) ] >> }

\* A started wallet: _start returned True, the peer check has ended, there
\* is nothing to resend and no full node is pinned or connected.
StartedLife ==
    /\ keychain = << 1 >>
    /\ user_settings = { 1 }
    /\ start_task = StartIdle
    /\ start_result = "True"
    /\ wsm_close_task = "none"
    /\ stores_open = TRUE
    /\ callbacks = { "pending" }
    /\ state_changed_callback = FALSE
    /\ checks = EmptyBag
    /\ closing = "idle"
    /\ tx_store = << >>
    /\ action_store = << >>
    /\ resend = << >>
    /\ outbox = EmptyBag
    /\ full_node_peer = NoPeer
    /\ connections = {}
    /\ closed = {}
    /\ wallet_peers_open = TRUE
    /\ found = "none"

(***************************************************************************)
(* Actions of the header handler.                                          *)
(***************************************************************************)
respond_header_entry(m, b) ==
    IF ~wallet_state_manager \/ ~backup_initialized THEN Return(m)
    ELSE respond_header_head(m, b)

Running == BagCardinality(tasks) + (IF sync.pc = "idle" THEN 0 ELSE 1)

Deliver(b) ==
    /\ Running < MaxTasks
    /\ sync.total <= MaxStall * sleep_interval
    /\ delivered' = IF shut_down THEN delivered ELSE delivered \cup {b}
    /\ LET m == respond_header_entry(Core, b)
       IN  /\ Store(m)
           /\ tasks' = tasks (+) TaskAfter(m)
    /\ UNCHANGED << life_vars, resend_vars, peer_vars >>
    /\ UNCHANGED << wallet_state_manager, backup_initialized, server, shut_down,
                    sync_mode, new_wallet, runs, peer_headers, pushed >>

Requested(b) ==
    \E msg \in sent : msg.type = "request_header" /\ msg.hash = b

DeliverRespondHeader ==
    \E b \in peer_headers : (b \in pushed \/ Requested(b)) /\ Deliver(b)

handler_resume(m, p, b) ==
    CASE p = "filter" -> respond_header_filtered(m, b)
      [] p = "receive" -> block_finished_result(m, b)
      [] OTHER -> Return(m)

HandlerSegment(r) == handler_resume(Core, r.pc, r.resp)

Resume(r) ==
    /\ BagIn(r, tasks)
    /\ LET m == HandlerSegment(r)
       IN  /\ Store(m)
           /\ tasks' = (tasks (-) SetToBag({r})) (+) TaskAfter(m)
    /\ UNCHANGED << life_vars, resend_vars, peer_vars >>
    /\ UNCHANGED << wallet_state_manager, backup_initialized, server, shut_down,
                    sync_mode, new_wallet, runs, peer_headers, pushed, delivered >>

ResumeHandler == \E r \in BagToSet(tasks) : Resume(r)

(***************************************************************************)
(* A running wallet in steady state: the chain up to LcaHeight is          *)
(* committed (loaded from the wallet database), the caches are empty.      *)
(***************************************************************************)
InitSteady ==
    /\ StartedLife
    /\ wallet_state_manager = TRUE
    /\ backup_initialized = TRUE
    /\ server = TRUE
    /\ shut_down = FALSE
    /\ block_records = 0..LcaHeight
    /\ lca = Main(LcaHeight)
    /\ sync_mode = FALSE
    /\ cached_blocks = {}
    /\ future_block_hashes = EmptyMap
    /\ potential_blocks_received = EmptyMap
    /\ potential_header_hashes = EmptyMap
    /\ header_hashes = << >>
    /\ header_hashes_error = FALSE
    /\ proof_hashes = << >>
    /\ starting_height = 0
    /\ new_wallet = FALSE
    /\ sync = SyncIdle
    /\ sync_outcome = "none"
    /\ runs = 0
    /\ tasks = EmptyBag
    /\ peer_headers = SteadyHeaders
    /\ pushed = SteadyHeaders
    /\ sent = {}
    /\ submitted = {}
    /\ delivered = {}
    /\ errors = {}

(***************************************************************************)
(* _close: sets the shutdown flag and, with a state manager, spawns the    *)
(* store close task and the task that closes discovery (both run outside   *)
(* this class; the second is taken as done at once).                       *)
(***************************************************************************)
Close ==
    /\ ~shut_down
    /\ shut_down' = TRUE
    /\ wsm_close_task' = IF wallet_state_manager THEN "pending" ELSE wsm_close_task
    /\ wallet_peers_open' = IF wallet_state_manager THEN FALSE ELSE wallet_peers_open
    /\ UNCHANGED << keychain, user_settings, start_task, start_result,
                    stores_open, callbacks, state_changed_callback, checks,
                    closing, resend_vars, full_node_peer, connections, closed,
                    found >>
    /\ UNCHANGED << wallet_state_manager, backup_initialized, server,
                    block_records, lca, sync_mode, cached_blocks,
                    future_block_hashes, potential_blocks_received,
                    potential_header_hashes, header_hashes, header_hashes_error,
                    proof_hashes, starting_height, new_wallet, sync,
                    sync_outcome, runs, tasks, peer_headers, pushed, sent,
                    submitted, delivered, errors >>

NextSteady == DeliverRespondHeader \/ ResumeHandler \/ Close

SpecSteady == InitSteady /\ [][NextSteady]_vars

(***************************************************************************)
(* _sync.  Bounds of the sync scenarios, then the constants of the code.   *)
(***************************************************************************)
PeerTip == 8                \* height of the peer's tip (skeleton of PeerTip + 1)
ShortLen == 3               \* length of a short skeleton (at most 5 hashes)
PollStep == 25              \* seconds the clock advances per poll of Phases A, C
MaxSyncRuns == 2            \* _sync runs in one behaviour
ConfiguredStart == 3        \* a non-zero config["starting_height"]
num_sync_batches == 2       \* config["num_sync_batches"]
start_height_buffer == 1    \* config["start_height_buffer"]

Max(a, b) == IF a > b THEN a ELSE b
Min(a, b) == IF a < b THEN a ELSE b

\* Python lists are sequences read at index + 1.
At(s, i) == s[i + 1]
InRange(s, i) == i >= 0 /\ i < Len(s)

(***************************************************************************)
(* What the peer answers.                                                  *)
(***************************************************************************)
Skeleton(n) == [i \in 1..n |-> Main(i - 1)]

SkeletonLengths == { ShortLen, PeerTip + 1 }

TotalIters(b) == Height(b) + 1

HonestProofs(n) == [i \in 1..n |-> i]

\* The total_iters of every odd height disagrees with the header's.
CorruptProofs(n) == [i \in 1..n |-> IF (i - 1) % 2 = 1 THEN 0 ELSE i]

SyncHeaders == { Main(h) : h \in 1..PeerTip }

(***************************************************************************)
(* WalletStateManager (interface only), the part _sync uses.               *)
(***************************************************************************)
RECURSIVE height_to_hash(_)
height_to_hash(l) ==
    IF Height(l) = 0 THEN {l} ELSE {l} \cup height_to_hash(PrevHash(l))

find_fork_point_alternate_chain(l, hashes) ==
    LET agree == { h \in 0..(Len(hashes) - 1) : At(hashes, h) \in height_to_hash(l) }
    IN  CHOOSE h \in agree : \A g \in agree : g <= h

validate_select_proofs(proofs, odd, cached, hashes) ==
    \A h \in odd :
        /\ h \in DOMAIN hashes
        /\ hashes[h] \in cached
        /\ InRange(proofs, h)
        /\ At(proofs, h) = TotalIters(hashes[h])

(***************************************************************************)
(* _sync: how a run ends, and moving between the points of the code.       *)
(***************************************************************************)
\* prev and hashes0 remember how the run before ended and the skeleton it had.
SyncEnded(m) == [SyncIdle EXCEPT !.prev = m.y.prev, !.hashes0 = m.y.hashes0]

sync_return(m) == [m EXCEPT !.y = SyncEnded(m), !.outcome = "returned"]
sync_raise(m, e) == [m EXCEPT !.y = SyncEnded(m), !.outcome = e, !.err = e]
Goto(m, where) == [m EXCEPT !.y.pc = where]

\* Lines 369-386: the guards, the reset of the sync state, the first request.
sync_entry(m) ==
    IF ~server THEN [m EXCEPT !.outcome = "returned"]
    ELSE IF ~wallet_state_manager \/ ~backup_initialized
    THEN [m EXCEPT !.outcome = "returned"]
    ELSE LET m1 == [m EXCEPT !.hashes = << >>, !.hashes_error = FALSE,
                             !.proofs = << >>, !.phh = EmptyMap,
                             !.outcome = "running",
                             !.y = [SyncIdle EXCEPT !.committed0 = m.br,
                                                    !.prev = m.outcome,
                                                    !.hashes0 = m.hashes]]
         IN  Goto(Send(m1, RequestAllHeaderHashesAfter), "send_hashes")

\* Lines 392-403: Phase A, one test of the polling loop.
poll_hashes(m) ==
    IF m.y.elapsed < timeout
    THEN IF shut_down THEN sync_return(m)
         ELSE IF m.hashes_error THEN sync_raise(m, "ValueError")
         ELSE IF Len(m.hashes) > 0 THEN Goto(m, "fork_point")
         ELSE Goto(m, "sleep_hashes")
    ELSE IF Len(m.hashes) = 0 THEN sync_raise(m, "TimeoutError")
    ELSE Goto(m, "fork_point")

TipHeight(n) == IF n > TipLag THEN n - TipLag ELSE n

NewEvents(pbr, tip) ==
    [h \in (DOMAIN pbr) \cup (0..tip) |-> IF h \in 0..tip THEN FALSE ELSE pbr[h]]

\* Lines 406-437: Phase B, then either Phase D or the proof-hash request.
fork_point(m) ==
    IF ~wallet_state_manager THEN sync_raise(m, "AttributeError")
    ELSE LET fork == find_fork_point_alternate_chain(m.lca, m.hashes)
             tip == TipHeight(Len(m.hashes))
             start == IF new_wallet /\ fork = 0
                      THEN Max(0, tip - start_height_buffer)
                      ELSE m.start
             m1 == [m EXCEPT !.start = start, !.pbr = NewEvents(@, tip),
                             !.y.fork = fork, !.y.tip = tip]
         IN  IF start = 0
             THEN [m1 EXCEPT !.y.hvs = fork, !.y.pc = "phase_d"]
             ELSE Goto(Send(m1, RequestAllProofHashes), "send_proofs")

\* Lines 440-449: Phase C, one test of the polling loop for proof hashes.
poll_proofs(m) ==
    IF m.y.elapsed < timeout /\ shut_down THEN sync_return(m)
    ELSE IF m.y.elapsed < timeout /\ Len(m.proofs) = 0 THEN Goto(m, "sleep_proofs")
    ELSE IF Len(m.proofs) = 0 THEN sync_raise(m, "TimeoutError")
    ELSE IF Len(m.proofs) < m.y.tip THEN sync_raise(m, "ValueError")
    ELSE Goto(m, "sampling")

\* Lines 455-460: the odd heights that can be sampled.
Candidates(fork, tip) ==
    { i \in 0..(tip - 1) : i > fork + 1 /\ i % 2 = 1 }

\* Lines 463-471: random.choices draws min(100, n) heights with replacement;
\* the set of the draws is any non-empty subset of that size at most.
SampleChoices(fork, tip) ==
    { s \in SUBSET Candidates(fork, tip) :
        s # {} /\ Cardinality(s) <= Min(MaxSamples, Cardinality(Candidates(fork, tip))) }

\* Lines 472-475.
RECURSIVE QueryHeights(_)
QueryHeights(odd) ==
    IF odd = {} THEN << >>
    ELSE LET x == CHOOSE a \in odd : \A b \in odd : a <= b
         IN  << x - 1, x >> \o QueryHeights(odd \ {x})

\* Lines 452-481: random.choices raises IndexError on an empty population.
sampling(m, s) ==
    IF Candidates(m.y.fork, m.y.tip) = {} THEN sync_raise(m, "IndexError")
    ELSE [m EXCEPT !.y.odd = s, !.y.query = QueryHeights(s), !.y.i = 0,
                   !.y.due = TRUE, !.y.highest = 0, !.y.made = FALSE,
                   !.y.pc = "sample_for"]

\* Line 483-484: head of the loop over the sampled heights.
sample_for(m) ==
    IF m.y.i < Len(m.y.query)
    THEN [m EXCEPT !.y.total = 0, !.y.pc = "sample_top"]
    ELSE Goto(m, "validate")

\* Lines 485-489.
sample_top(m) ==
    IF shut_down THEN sync_return(m)
    ELSE IF m.y.total > timeout THEN sync_raise(m, "TimeoutError")
    ELSE [m EXCEPT !.y.j = m.y.i, !.y.pc = "sample_batch"]

\* Lines 492-529: one turn of the loop over the batch window.
sample_batch(m) ==
    IF m.y.j < Min(m.y.i + num_sync_batches, Len(m.y.query))
    THEN IF shut_down THEN sync_return(m)
         ELSE LET h == At(m.y.query, m.y.j)
              IN  IF h \notin DOMAIN m.pbr THEN sync_raise(m, "KeyError")
                  ELSE IF (m.y.due /\ ~m.pbr[h]) \/ h > m.y.highest
                  THEN IF ~InRange(m.hashes, h) THEN sync_raise(m, "IndexError")
                       ELSE IF ~server THEN sync_raise(m, "AttributeError")
                       ELSE Goto(Send([m EXCEPT !.y.highest = Max(@, h),
                                                !.y.made = TRUE],
                                      RequestHeader(h, At(m.hashes, h))),
                                 "sample_send")
                  ELSE [m EXCEPT !.y.j = @ + 1]
    ELSE Goto(m, "sample_after")

\* Lines 530-537.
sample_after(m) ==
    IF m.y.made
    THEN [m EXCEPT !.y.due = FALSE, !.y.made = FALSE, !.y.pc = "sample_wait"]
    ELSE Goto(m, "sample_wait")

sample_waited_unclocked(m) ==
    IF m.pbr[At(m.y.query, m.y.i)]
    THEN [m EXCEPT !.y.i = @ + 1, !.y.pc = "sample_for"]
    ELSE [m EXCEPT !.y.due = TRUE, !.y.pc = "sample_top"]

\* Lines 537-542: wait_for returned (signal set) or timed out.
sample_waited(m) ==
    IF m.pbr[At(m.y.query, m.y.i)]
    THEN [m EXCEPT !.y.i = @ + 1, !.y.pc = "sample_for"]
    ELSE [m EXCEPT !.y.total = @ + sleep_interval, !.y.due = TRUE,
                   !.y.pc = "sample_top"]

\* Lines 548-572.
SynthFirstSkipping(fork) == fork + 2

SynthFirst(fork) == fork + 1

validate(m) ==
    IF ~wallet_state_manager THEN sync_raise(m, "AttributeError")
    ELSE IF ~validate_select_proofs(m.proofs, m.y.odd, m.cached, m.phh)
    THEN sync_raise(m, "AssertionError")
    ELSE [m EXCEPT !.y.hvs = Min(Max(m.y.fork, m.start - 1), m.y.tip + 1),
                   !.y.i = SynthFirst(m.y.fork), !.y.pc = "synth_loop"]

\* Lines 574-592: the synthesized record of one height, up to receive_block.
synth_loop(m) ==
    IF m.y.i < m.y.hvs + 1
    THEN IF ~InRange(m.proofs, m.y.i) \/ ~InRange(m.hashes, m.y.i)
         THEN sync_raise(m, "IndexError")
         ELSE IF ~wallet_state_manager THEN sync_raise(m, "AttributeError")
         ELSE Goto(SubmitRecord(m, At(m.hashes, m.y.i), At(m.hashes, m.y.i - 1),
                                "sync"),
                   "synth")
    ELSE Goto(m, "phase_d")

\* Lines 592-596: the result of receive_block for a synthesized record.
synth_received(m) ==
    LET b == At(m.hashes, m.y.i)
        res == receive_block_result(m.br, m.lca, b)
    IN  IF ~Added(res) THEN sync_raise(m, "AssertionError")
        ELSE [ApplyReceive(m, b, res) EXCEPT !.y.i = @ + 1, !.y.pc = "synth_loop"]

\* Lines 603-607.
phase_d(m) ==
    [m EXCEPT !.y.due = TRUE, !.y.highest = 0, !.y.made = FALSE,
              !.y.i = m.y.hvs + 1, !.y.pc = "cp_for"]

\* Lines 607-611: head of the loop over the checkpoints.
cp_for(m) ==
    IF m.y.i < m.y.tip + 1
    THEN [m EXCEPT !.y.total = 0, !.y.pc = "cp_top"]
    ELSE Goto(m, "finish")

cp_top(m) == [m EXCEPT !.y.j = m.y.i, !.y.pc = "batch"]

\* Lines 613-646: one turn of the loop over the batch window.
batch(m) ==
    IF m.y.j < Min(m.y.i + num_sync_batches, m.y.tip + 1)
    THEN IF shut_down THEN sync_return(m)
         ELSE IF m.y.total > timeout THEN sync_raise(m, "TimeoutError")
         ELSE IF m.y.j \notin DOMAIN m.pbr THEN sync_raise(m, "KeyError")
         ELSE IF (m.y.due /\ ~m.pbr[m.y.j]) \/ m.y.j > m.y.highest
         THEN IF ~InRange(m.hashes, m.y.j) THEN sync_raise(m, "IndexError")
              ELSE IF ~server THEN sync_raise(m, "AttributeError")
              ELSE Goto(Send([m EXCEPT !.y.highest = Max(@, m.y.j),
                                       !.y.made = TRUE],
                             RequestHeader(m.y.j, At(m.hashes, m.y.j))),
                        "batch_send")
         ELSE [m EXCEPT !.y.j = @ + 1]
    ELSE Goto(m, "batch_after")

\* Lines 647-656.
batch_after(m) ==
    IF m.y.made
    THEN [m EXCEPT !.y.due = FALSE, !.y.made = FALSE, !.y.pc = "batch_wait"]
    ELSE Goto(m, "batch_wait")

batch_waited_unconfirmed(m) ==
    IF ~m.pbr[m.y.i]
    THEN [m EXCEPT !.y.total = @ + sleep_interval, !.y.due = TRUE,
                   !.y.pc = "cp_top"]
    ELSE [m EXCEPT !.y.i = @ + 1, !.y.pc = "cp_for"]

\* Lines 656-676: wait_for timed out, or the signal of the checkpoint is set.
batch_waited(m) ==
    IF ~m.pbr[m.y.i]
    THEN [m EXCEPT !.y.total = @ + sleep_interval, !.y.due = TRUE,
                   !.y.pc = "cp_top"]
    ELSE IF m.y.i \notin DOMAIN m.phh THEN sync_raise(m, "KeyError")
    ELSE IF ~wallet_state_manager THEN sync_raise(m, "AttributeError")
    ELSE IF m.phh[m.y.i] \in m.br
    THEN [m EXCEPT !.y.i = @ + 1, !.y.pc = "cp_for"]
    ELSE [m EXCEPT !.y.hh = m.phh[m.y.i], !.y.pc = "short_sleep"]

\* Line 688: _respond_header called from _sync; it returned, raised, or is
\* suspended at one of its own awaits.
after_handler(r) ==
    IF r.err # "" THEN sync_raise(r, r.err)
    ELSE IF r.pc = "done" THEN [r EXCEPT !.y.pc = "cp_top"]
    ELSE [r EXCEPT !.y.pc = "handler", !.y.hpc = r.pc, !.y.hresp = r.resp,
                   !.pc = "done", !.resp = NoHash]

\* Lines 676-688.
short_slept(m) ==
    IF shut_down THEN sync_return(m)
    ELSE LET m1 == [m EXCEPT !.y.total = @ + sleep_interval_short]
         IN  IF ~wallet_state_manager THEN sync_raise(m1, "AttributeError")
             ELSE IF m1.y.hh \in m1.br
             THEN [m1 EXCEPT !.y.i = @ + 1, !.y.pc = "cp_for"]
             ELSE IF m1.y.hh \notin m1.cached THEN sync_raise(m1, "KeyError")
             ELSE after_handler(respond_header_entry(m1, m1.y.hh))

\* Lines 690-692.
finish(m) ==
    IF ~wallet_state_manager THEN sync_raise(m, "AttributeError")
    ELSE [m EXCEPT !.y = SyncEnded(m), !.outcome = "completed"]

(***************************************************************************)
(* _sync from one await to the next.                                       *)
(***************************************************************************)
Suspended ==
    { "send_hashes", "sleep_hashes", "send_proofs", "sleep_proofs",
      "sample_send", "sample_wait", "synth", "batch_send", "batch_wait",
      "short_sleep", "handler" }

Timed == { "sample_send", "sample_wait", "batch_send", "batch_wait",
           "short_sleep", "handler" }

\* The first code after the await the coroutine is suspended at.  late: more
\* than sleep_interval has passed since last_request_time.
sync_resume(m, late) ==
    LET p == m.y.pc
        m0 == IF p \in Timed THEN [m EXCEPT !.y.due = @ \/ late] ELSE m
    IN  CASE p = "send_hashes" -> [m0 EXCEPT !.y.elapsed = 0, !.y.pc = "poll_hashes"]
          [] p = "sleep_hashes" ->
                [m0 EXCEPT !.y.elapsed = @ + PollStep, !.y.pc = "poll_hashes"]
          [] p = "send_proofs" -> [m0 EXCEPT !.y.elapsed = 0, !.y.pc = "poll_proofs"]
          [] p = "sleep_proofs" ->
                [m0 EXCEPT !.y.elapsed = @ + PollStep, !.y.pc = "poll_proofs"]
          [] p = "sample_send" -> [m0 EXCEPT !.y.j = @ + 1, !.y.pc = "sample_batch"]
          [] p = "sample_wait" -> sample_waited(m0)
          [] p = "synth" -> synth_received(m0)
          [] p = "batch_send" -> [m0 EXCEPT !.y.j = @ + 1, !.y.pc = "batch"]
          [] p = "batch_wait" -> batch_waited(m0)
          [] p = "short_sleep" -> short_slept(m0)
          [] p = "handler" -> after_handler(handler_resume(m0, m0.y.hpc, m0.y.hresp))
          [] OTHER -> m0

sync_step(m, s) ==
    LET p == m.y.pc
    IN  CASE p = "poll_hashes" -> poll_hashes(m)
          [] p = "fork_point" -> fork_point(m)
          [] p = "poll_proofs" -> poll_proofs(m)
          [] p = "sampling" -> sampling(m, s)
          [] p = "sample_for" -> sample_for(m)
          [] p = "sample_top" -> sample_top(m)
          [] p = "sample_batch" -> sample_batch(m)
          [] p = "sample_after" -> sample_after(m)
          [] p = "validate" -> validate(m)
          [] p = "synth_loop" -> synth_loop(m)
          [] p = "phase_d" -> phase_d(m)
          [] p = "cp_for" -> cp_for(m)
          [] p = "cp_top" -> cp_top(m)
          [] p = "batch" -> batch(m)
          [] p = "batch_after" -> batch_after(m)
          [] p = "finish" -> finish(m)
          [] OTHER -> m

RECURSIVE run_sync(_, _)
run_sync(m, s) ==
    IF m.y.pc \in Suspended \cup {"idle"} THEN m
    ELSE run_sync(sync_step(m, s), s)

sync_segment(m, late, s) == run_sync(sync_resume(m, late), s)

(***************************************************************************)
(* Actions of a sync.  The caller of _sync (outside wallet_node.py) puts   *)
(* the state manager in sync mode for the time of the run.                 *)
(***************************************************************************)
StartSync ==
    /\ sync.pc = "idle"
    /\ ~shut_down
    /\ Running < MaxTasks
    /\ LET m == sync_entry(Core)
       IN  /\ Store(m)
           /\ sync_mode' = (m.y.pc # "idle")
    /\ runs' = runs + 1
    /\ UNCHANGED << life_vars, resend_vars, peer_vars >>
    /\ UNCHANGED << wallet_state_manager, backup_initialized, server, shut_down,
                    new_wallet, tasks, peer_headers, pushed, delivered >>

Draws ==
    IF sync.pc \in {"send_proofs", "sleep_proofs"}
            /\ Candidates(sync.fork, sync.tip) # {}
    THEN SampleChoices(sync.fork, sync.tip)
    ELSE { {} }

Lateness == IF sync.pc \in Timed /\ ~sync.due THEN BOOLEAN ELSE { FALSE }

ResumeSync ==
    /\ sync.pc # "idle"
    /\ \E late \in Lateness, s \in Draws :
          LET m == sync_segment(Core, late, s)
          IN  /\ Store(m)
              /\ sync_mode' = IF m.y.pc = "idle" THEN FALSE ELSE sync_mode
    /\ UNCHANGED << life_vars, resend_vars, peer_vars >>
    /\ UNCHANGED << wallet_state_manager, backup_initialized, server, shut_down,
                    new_wallet, runs, tasks, peer_headers, pushed, delivered >>

\* Handlers of the peer's answers (outside wallet_node.py): they store the
\* answer in the field _sync polls.
RespondAllHeaderHashes ==
    /\ sync.pc \in {"send_hashes", "sleep_hashes"}
    /\ header_hashes = << >> /\ ~header_hashes_error
    /\ \E n \in SkeletonLengths : header_hashes' = Skeleton(n)
    /\ UNCHANGED << life_vars, resend_vars, peer_vars >>
    /\ UNCHANGED << wallet_state_manager, backup_initialized, server, shut_down,
                    block_records, lca, sync_mode, cached_blocks,
                    future_block_hashes, potential_blocks_received,
                    potential_header_hashes, header_hashes_error,
                    proof_hashes, starting_height, new_wallet, sync,
                    sync_outcome, runs, tasks, peer_headers, pushed, sent,
                    submitted, delivered, errors >>

RejectAllHeaderHashes ==
    /\ sync.pc \in {"send_hashes", "sleep_hashes"}
    /\ header_hashes = << >> /\ ~header_hashes_error
    /\ header_hashes_error' = TRUE
    /\ UNCHANGED << life_vars, resend_vars, peer_vars >>
    /\ UNCHANGED << wallet_state_manager, backup_initialized, server, shut_down,
                    block_records, lca, sync_mode, cached_blocks,
                    future_block_hashes, potential_blocks_received,
                    potential_header_hashes, header_hashes,
                    proof_hashes, starting_height, new_wallet, sync,
                    sync_outcome, runs, tasks, peer_headers, pushed, sent,
                    submitted, delivered, errors >>

RespondAllProofHashes ==
    /\ sync.pc \in {"send_proofs", "sleep_proofs"}
    /\ proof_hashes = << >>
    /\ \E p \in { HonestProofs(Len(header_hashes)), CorruptProofs(Len(header_hashes)) } :
          proof_hashes' = p
    /\ UNCHANGED << life_vars, resend_vars, peer_vars >>
    /\ UNCHANGED << wallet_state_manager, backup_initialized, server, shut_down,
                    block_records, lca, sync_mode, cached_blocks,
                    future_block_hashes, potential_blocks_received,
                    potential_header_hashes, header_hashes, header_hashes_error,
                    starting_height, new_wallet, sync,
                    sync_outcome, runs, tasks, peer_headers, pushed, sent,
                    submitted, delivered, errors >>

(***************************************************************************)
(* A wallet about to sync: a short committed chain, the peer far ahead.    *)
(***************************************************************************)
LocalTip == 2               \* height of the committed chain of a wallet left behind

SyncScenarios ==
    { [tip |-> 0, new |-> TRUE, start |-> 0],
      [tip |-> 1, new |-> FALSE, start |-> ConfiguredStart],
      [tip |-> LocalTip, new |-> FALSE, start |-> 0] }

InitSync ==
    /\ StartedLife
    /\ wallet_state_manager = TRUE
    /\ backup_initialized = TRUE
    /\ server = TRUE
    /\ shut_down = FALSE
    /\ \E c \in SyncScenarios :
          /\ block_records = 0..c.tip
          /\ lca = Main(c.tip)
          /\ new_wallet = c.new
          /\ starting_height = c.start
    /\ sync_mode = FALSE
    /\ cached_blocks = {}
    /\ future_block_hashes = EmptyMap
    /\ potential_blocks_received = EmptyMap
    /\ potential_header_hashes = EmptyMap
    /\ header_hashes = << >>
    /\ header_hashes_error = FALSE
    /\ proof_hashes = << >>
    /\ sync = SyncIdle
    /\ sync_outcome = "none"
    /\ runs = 0
    /\ tasks = EmptyBag
    /\ peer_headers = SyncHeaders
    /\ pushed = {}
    /\ sent = {}
    /\ submitted = {}
    /\ delivered = {}
    /\ errors = {}

FirstSync == runs = 0 /\ StartSync

Resync == runs > 0 /\ runs < MaxSyncRuns /\ StartSync

NextSync ==
    \/ FirstSync
    \/ ResumeSync
    \/ RespondAllHeaderHashes
    \/ RejectAllHeaderHashes
    \/ RespondAllProofHashes
    \/ DeliverRespondHeader
    \/ ResumeHandler
    \/ Close

SpecSync == InitSync /\ [][NextSync]_vars

(***************************************************************************)
(* The caller retries: a wallet left behind at LocalTip, synced by up to   *)
(* MaxSyncRuns runs of _sync one after the other (no proof sampling).      *)
(***************************************************************************)
InitResync ==
    /\ InitSync
    /\ block_records = 0..LocalTip

NextResync ==
    \/ FirstSync
    \/ Resync
    \/ ResumeSync
    \/ RespondAllHeaderHashes
    \/ RejectAllHeaderHashes
    \/ DeliverRespondHeader
    \/ ResumeHandler
    \/ Close

SpecResync == InitResync /\ [][NextResync]_vars

(***************************************************************************)
(* A sync against a peer that also sends a header nobody asked for: a      *)
(* competing block right above the wallet's chain, or the block right      *)
(* above the sync target.                                                  *)
(***************************************************************************)
Unsolicited == { { Sib(LocalTip + 1) }, { Main(PeerTip - 3) } }

InitPushed ==
    /\ StartedLife
    /\ wallet_state_manager = TRUE
    /\ backup_initialized = TRUE
    /\ server = TRUE
    /\ shut_down = FALSE
    /\ block_records = 0..LocalTip
    /\ lca = Main(LocalTip)
    /\ new_wallet = FALSE
    /\ starting_height = 0
    /\ sync_mode = FALSE
    /\ cached_blocks = {}
    /\ future_block_hashes = EmptyMap
    /\ potential_blocks_received = EmptyMap
    /\ potential_header_hashes = EmptyMap
    /\ header_hashes = << >>
    /\ header_hashes_error = FALSE
    /\ proof_hashes = << >>
    /\ sync = SyncIdle
    /\ sync_outcome = "none"
    /\ runs = 0
    /\ tasks = EmptyBag
    /\ pushed \in Unsolicited
    /\ peer_headers = SyncHeaders \cup pushed
    /\ sent = {}
    /\ submitted = {}
    /\ delivered = {}
    /\ errors = {}

NextPushed ==
    \/ FirstSync
    \/ ResumeSync
    \/ RespondAllHeaderHashes
    \/ RejectAllHeaderHashes
    \/ DeliverRespondHeader
    \/ ResumeHandler
    \/ Close

SpecPushed == InitPushed /\ [][NextPushed]_vars

(***************************************************************************)
(* A whole invocation of _respond_header run without interleaving, and     *)
(* the delivery of a set of headers in ascending height order.             *)
(***************************************************************************)
RECURSIVE RunHandler(_)
RunHandler(m) ==
    IF m.pc = "filter" THEN RunHandler(respond_header_filtered(m, m.resp))
    ELSE IF m.pc = "receive" THEN RunHandler(block_finished_result(m, m.resp))
    ELSE m

RunDelivery(m, b) ==
    RunHandler(respond_header_entry([m EXCEPT !.pc = "done", !.err = ""], b))

Lowest(hs) ==
    CHOOSE x \in hs : \A y \in hs :
        Height(x) < Height(y) \/ (Height(x) = Height(y) /\ x <= y)

RECURSIVE DeliverInOrder(_, _)
DeliverInOrder(m, hs) ==
    IF hs = {} THEN m
    ELSE DeliverInOrder(RunDelivery(m, Lowest(hs)), hs \ {Lowest(hs)})

SteadyCore ==
    [ br |-> 0..LcaHeight, lca |-> Main(LcaHeight), cached |-> {},
      future |-> EmptyMap, pbr |-> EmptyMap, phh |-> EmptyMap,
      hashes |-> << >>, hashes_error |-> FALSE, proofs |-> << >>, start |-> 0,
      y |-> SyncIdle, outcome |-> "none", sent |-> {},
      submitted |-> {}, pc |-> "done", resp |-> NoHash, err |-> "" ]

InOrderCommitted(hs) == DeliverInOrder(SteadyCore, hs).br

(***************************************************************************)
(* C1.  Out-of-order tolerance: once every handler has returned, the set   *)
(* of committed blocks is the one that delivering the same headers in      *)
(* ascending height order commits.                                         *)
(***************************************************************************)
OutOfOrderTolerance ==
    (~shut_down /\ tasks = EmptyBag) => block_records = InOrderCommitted(delivered)

(***************************************************************************)
(* C3.  Missing ancestor in steady state.  A header whose parent is not    *)
(* committed and which is within the short-sync threshold of the LCA is    *)
(* cached, recorded in future_block_hashes under its parent, and the       *)
(* parent is requested; when the parent is committed while that pointer    *)
(* and the cached child are still there, the same invocation goes on with  *)
(* the child (filter, then receive_block) and commits it.                  *)
(***************************************************************************)
HandlerActive == wallet_state_manager /\ backup_initialized /\ ~shut_down

ChildFirst(b) ==
    /\ HandlerActive /\ ~sync_mode
    /\ b \notin block_records /\ Height(b) >= 1
    /\ PrevHash(b) \notin block_records
    /\ Height(b) - Height(lca) < 15

ChildCachedAndParentRequested(b) ==
    /\ b \in cached_blocks
    /\ PrevHash(b) \in DOMAIN future_block_hashes
    /\ future_block_hashes[PrevHash(b)] = b
    /\ RequestHeader(Height(b) - 1, PrevHash(b)) \in sent

ParentCommitsWithChildWaiting(r) ==
    /\ r.pc = "receive" /\ HandlerActive
    /\ r.resp \notin block_records /\ r.resp \in block_records'
    /\ r.resp \in DOMAIN future_block_hashes
    /\ future_block_hashes[r.resp] \in cached_blocks'
    /\ future_block_hashes[r.resp] \notin block_records

MissingAncestorResumed ==
    [][ /\ \A b \in peer_headers :
              (ChildFirst(b) /\ Deliver(b)) => ChildCachedAndParentRequested(b)'
        /\ \A r \in BagToSet(tasks) :
              /\ (ParentCommitsWithChildWaiting(r) /\ Resume(r))
                    => BagIn(Task("filter", future_block_hashes[r.resp]), tasks')
              /\ (r.pc = "filter" /\ r.resp \notin Interesting
                    /\ wallet_state_manager /\ backup_initialized /\ Resume(r))
                    => BagIn(Task("receive", r.resp), tasks')
              /\ (r.pc = "receive" /\ r.resp \notin Invalid /\ Resume(r))
                    => r.resp \in block_records' ]_vars

ChildResumedAfterParent ==
    \E r \in BagToSet(tasks) :
        /\ r.pc = "receive"
        /\ PrevHash(r.resp) \in block_records
        /\ PrevHash(r.resp) \in DOMAIN future_block_hashes
        /\ future_block_hashes[PrevHash(r.resp)] = r.resp
        /\ RequestHeader(Height(r.resp) - 1, PrevHash(r.resp)) \in sent
        /\ ~shut_down

(***************************************************************************)
(* C4.  Redelivery idempotence: from every reachable state, handling a     *)
(* RespondHeader and then the same message again leaves the committed      *)
(* chain, cached_blocks and future_block_hashes as after the first.        *)
(***************************************************************************)
RedeliveryIdempotent ==
    \A b \in peer_headers :
        LET m1 == RunDelivery(Core, b)
            m2 == RunDelivery(m1, b)
        IN  /\ m2.br = m1.br
            /\ m2.lca = m1.lca
            /\ m2.cached = m1.cached
            /\ m2.future = m1.future

RedeliveredWhileUncommitted ==
    \E b \in delivered :
        /\ b \notin block_records
        /\ b \in cached_blocks
        /\ PrevHash(b) \in DOMAIN future_block_hashes
        /\ HandlerActive

(***************************************************************************)
(* C5.  Eviction horizon: in steady state, right after _block_finished     *)
(* had a block of height H accepted as ADDED_TO_HEAD, cached_blocks holds  *)
(* no entry of height below H - 100.                                       *)
(***************************************************************************)
AddedToHead(r) ==
    /\ r.pc = "receive"
    /\ wallet_state_manager /\ ~sync_mode
    /\ receive_block_result(block_records, lca, r.resp) = "ADDED_TO_HEAD"

EvictionHorizon ==
    [][ \A r \in BagToSet(tasks) :
            (AddedToHead(r) /\ Resume(r))
                => \A c \in cached_blocks' : Height(c) >= Height(r.resp) - 100 ]_vars

OldBlockEvicted ==
    /\ ~shut_down
    /\ Sib(OldHeight) \in delivered
    /\ Sib(OldHeight) \in block_records
    /\ Sib(OldHeight) \notin cached_blocks

(***************************************************************************)
(* C6.  In every reachable state future_block_hashes has no cycle          *)
(* (following prev -> next never returns to a hash already visited) and no *)
(* entry whose key is a committed hash.                                    *)
(***************************************************************************)
RECURSIVE Follow(_, _, _)
Follow(f, k, n) ==
    IF n = 0 \/ k \notin DOMAIN f THEN {k}
    ELSE {k} \cup Follow(f, f[k], n - 1)

NoFutureCycle ==
    \A k \in DOMAIN future_block_hashes :
        k \notin Follow(future_block_hashes, future_block_hashes[k],
                        Cardinality(DOMAIN future_block_hashes))

FutureAcyclicNoCommittedKey ==
    /\ NoFutureCycle
    /\ \A k \in DOMAIN future_block_hashes : k \notin block_records

(***************************************************************************)
(* C8.  Cache lineage: every cached block has its prev hash committed, or  *)
(* cached, or is the value recorded under its prev hash in                 *)
(* future_block_hashes.                                                    *)
(***************************************************************************)
CacheLineage ==
    \A b \in cached_blocks :
        \/ PrevHash(b) \in block_records
        \/ PrevHash(b) \in cached_blocks
        \/ /\ PrevHash(b) \in DOMAIN future_block_hashes
           /\ future_block_hashes[PrevHash(b)] = b

(***************************************************************************)
(* C2.  Parent before child: every record handed to receive_block, by      *)
(* _block_finished or by the synthesized-record loop of _sync, had its     *)
(* prev hash among the committed block records when it was handed over.    *)
(***************************************************************************)
ParentBeforeChild == \A r \in submitted : r.parent_ok

SubmittedBySyncAndHandler ==
    /\ \E r \in submitted : r.by = "sync" /\ r.hash \in block_records
    /\ \E r \in submitted : r.by = "handler" /\ r.hash \in block_records

(***************************************************************************)
(* C7.  In every reachable state, across consecutive _sync runs: for every *)
(* height h, if the signal potential_blocks_received[h] is set then        *)
(* potential_header_hashes[h] is defined.                                  *)
(***************************************************************************)
SignalHasHash ==
    \A h \in DOMAIN potential_blocks_received :
        potential_blocks_received[h] => h \in DOMAIN potential_header_hashes

(***************************************************************************)
(* C9.  Cooperative shutdown of sync: when shut_down is true while _sync   *)
(* is suspended, the next time _sync resumes it returns normally: it does  *)
(* not raise, sends no request and submits no block record.                *)
(***************************************************************************)
SyncStopsOnShutdown ==
    [][ (shut_down /\ sync.pc # "idle" /\ ResumeSync)
            => /\ sync'.pc = "idle"
               /\ sync_outcome' \in {"returned", "completed"}
               /\ sent' = sent
               /\ submitted' = submitted ]_vars

(***************************************************************************)
(* C10.  Sampler rejection commits nothing: when validate_select_proofs    *)
(* returns false _sync fails, and no block record of height above the fork *)
(* point has been committed since the start of that run, by _sync or by    *)
(* the header handler.                                                     *)
(***************************************************************************)
ValidationFails ==
    /\ sync.pc = "sample_wait"
    /\ sync.i = Len(sync.query) - 1
    /\ potential_blocks_received[At(sync.query, sync.i)]
    /\ wallet_state_manager
    /\ ~validate_select_proofs(proof_hashes, sync.odd, cached_blocks,
                               potential_header_hashes)

SamplerRejectionCommitsNothing ==
    [][ (ValidationFails /\ ResumeSync)
            => /\ sync_outcome' = "AssertionError"
               /\ \A b \in block_records' :
                     Height(b) > sync.fork => b \in sync.committed0 ]_vars

(***************************************************************************)
(* C11.  Sync postcondition: _sync moves past a Phase D checkpoint h only  *)
(* when the skeleton hash header_hashes[h] is committed, and when it       *)
(* completes normally header_hashes[h] is committed for every h with       *)
(* fork_point_height < h <= tip_height.                                    *)
(***************************************************************************)
PhaseD == { "batch_send", "batch_wait", "short_sleep", "handler" }

CheckpointPassed ==
    /\ sync.pc \in {"batch_wait", "short_sleep"}
    /\ \/ sync'.pc \in PhaseD /\ sync'.i = sync.i + 1
       \/ sync'.pc = "idle" /\ sync_outcome' = "completed"

SyncPostcondition ==
    [][ /\ CheckpointPassed => At(header_hashes, sync.i) \in block_records'
        /\ (sync.pc # "idle" /\ sync'.pc = "idle" /\ sync_outcome' = "completed")
              => \A h \in (sync.fork + 1)..sync.tip :
                    At(header_hashes, h) \in block_records' ]_vars

(***************************************************************************)
(* C12.  Sync stays behind the target: once tip_height is computed, no     *)
(* request_header for a height above tip_height is sent and no block of    *)
(* height above tip_height is committed, whatever the peer delivers.       *)
(***************************************************************************)
TargetKnown == sync.pc \notin {"idle", "send_hashes", "sleep_hashes"}

SyncStaysBehindTarget ==
    [][ TargetKnown
            => /\ \A msg \in sent' \ sent :
                     msg.type = "request_header" => msg.height <= sync.tip
               /\ \A b \in block_records' \ block_records :
                     Height(b) <= sync.tip ]_vars

(***************************************************************************)
(* C14.  For every length n >= 1 of the received skeleton, the sync target *)
(* computed in Phase B is tip_height = max(0, n - 5).                      *)
(***************************************************************************)
TipIsLengthMinusFive ==
    TargetKnown => sync.tip = Max(0, Len(header_hashes) - 5)

(***************************************************************************)
(* The lifecycle facade: _start, _close, _await_closed.  The state manager *)
(* and its stores are outside wallet_node.py; create opens the stores of   *)
(* the database of the chosen key, and each of user_created_new_wallet,    *)
(* user_skipped_backup_import and import_backup_info records the user's    *)
(* decision in that database.                                              *)
(***************************************************************************)
MaxTries == 5

InKeychain(fingerprint) == \E i \in 1..Len(keychain) : keychain[i] = fingerprint

get_key_or_first(fingerprint) ==
    IF Len(keychain) = 0 THEN NoFingerprint
    ELSE IF fingerprint # NoFingerprint /\ InKeychain(fingerprint)
    THEN fingerprint
    ELSE keychain[1]

get_key_for_fingerprint(fingerprint) ==
    IF Len(keychain) = 0 THEN NoFingerprint
    ELSE IF fingerprint # NoFingerprint
    THEN IF InKeychain(fingerprint) THEN fingerprint ELSE NoFingerprint
    ELSE keychain[1]

\* Lines 145-157: the call, up to the await of WalletStateManager.create.
StartWith(fingerprints, skips, files) ==
    /\ start_task.pc = "idle"
    /\ closing = "idle"
    /\ ~wallet_state_manager
    /\ BagCardinality(checks) < MaxChecks
    /\ \E fingerprint \in fingerprints,
          nw \in BOOLEAN, skip \in skips, backup_file \in files :
          LET private_key == get_key_for_fingerprint(fingerprint)
          IN  IF private_key = NoFingerprint
              THEN /\ start_result' = "False"
                   /\ start_task' = start_task
              ELSE /\ start_result' = "running"
                   /\ start_task' = [ pc |-> "create", key |-> private_key,
                                      new_wallet |-> nw,
                                      skip_backup_import |-> skip,
                                      backup_file |-> backup_file ]
    /\ UNCHANGED << wallet_state_manager, backup_initialized, server, shut_down,
                    starting_height, new_wallet, chain_vars, keychain,
                    user_settings, wsm_close_task, stores_open, callbacks,
                    state_changed_callback, checks, closing, resend_vars,
                    peer_vars >>

Start == StartWith({ NoFingerprint } \cup Fingerprints, BOOLEAN, BackupFiles)

\* A start by fingerprint, with no backup file and no skip.
StartByKey == StartWith(Fingerprints, { FALSE }, { NoFile })

\* Lines 179-201: the tail of a start that goes through.
StartFinish ==
    /\ backup_initialized' = TRUE
    /\ starting_height' =
          IF start_task.backup_file \notin { NoFile, NoStartHeight }
          THEN Max(0, start_task.backup_file - start_height_buffer)
          ELSE 0
    /\ callbacks' = { "pending" } \cup
                    (IF state_changed_callback THEN { "state_changed" } ELSE {})
    /\ shut_down' = FALSE
    /\ checks' = checks (+) SetToBag({ 0 })
    /\ start_result' = "True"
    /\ start_task' = StartIdle

\* Lines 155-177: create has returned; the backup decision.
StartCreated ==
    /\ start_task.pc = "create"
    /\ wallet_state_manager' = TRUE
    /\ wsm_close_task' = "none"
    /\ stores_open' = TRUE
    /\ new_wallet' = FALSE
    /\ IF start_task.key \in user_settings
       THEN /\ StartFinish
            /\ UNCHANGED user_settings
       ELSE IF start_task.new_wallet \/ start_task.skip_backup_import
               \/ start_task.backup_file # NoFile
       THEN /\ start_task' = [start_task EXCEPT !.pc = "decided"]
            /\ user_settings' = user_settings \cup { start_task.key }
            /\ callbacks' = {}
            /\ UNCHANGED << backup_initialized, starting_height,
                            shut_down, checks, start_result >>
       ELSE /\ backup_initialized' = FALSE
            /\ start_task' = [start_task EXCEPT !.pc = "closing"]
            /\ callbacks' = {}
            /\ UNCHANGED << user_settings, starting_height,
                            shut_down, checks, start_result >>
    /\ UNCHANGED << server, chain_vars, keychain, state_changed_callback,
                    closing, resend_vars, peer_vars >>

\* Lines 167-172, then 179-201: the decision is stored.
StartDecided ==
    /\ start_task.pc = "decided"
    /\ new_wallet' = IF start_task.new_wallet THEN TRUE ELSE new_wallet
    /\ StartFinish
    /\ UNCHANGED << wallet_state_manager, server, chain_vars, keychain,
                    user_settings, wsm_close_task, stores_open,
                    state_changed_callback, closing, resend_vars, peer_vars >>

\* Lines 175-177: the stores are closed, the handle is dropped.  The record
\* keeps the arguments of the refused call.
StartRefused ==
    /\ start_task.pc = "closing"
    /\ stores_open' = FALSE
    /\ wallet_state_manager' = FALSE
    /\ start_result' = "False"
    /\ start_task' = [start_task EXCEPT !.pc = "idle"]
    /\ UNCHANGED << backup_initialized, server, shut_down, starting_height,
                    new_wallet, chain_vars, keychain, user_settings,
                    wsm_close_task, callbacks, state_changed_callback, checks,
                    closing, resend_vars, peer_vars >>

\* The task _close spawned: wallet_state_manager.close_all_stores().
CloseAllStores ==
    /\ wsm_close_task = "pending"
    /\ wsm_close_task' = "done"
    /\ stores_open' = FALSE
    /\ UNCHANGED << wallet_state_manager, backup_initialized, server, shut_down,
                    starting_height, new_wallet, chain_vars, keychain,
                    user_settings, start_task, start_result, callbacks,
                    state_changed_callback, checks, closing, resend_vars,
                    peer_vars >>

\* Lines 214-220, up to the await of the close task.
AwaitClosed ==
    /\ closing = "idle"
    /\ start_task.pc = "idle"
    /\ IF ~wallet_state_manager \/ ~backup_initialized
       THEN UNCHANGED << wallet_state_manager, wsm_close_task, closing >>
       ELSE IF wsm_close_task = "pending"
       THEN /\ closing' = "awaiting"
            /\ UNCHANGED << wallet_state_manager, wsm_close_task >>
       ELSE /\ wsm_close_task' = "none"
            /\ wallet_state_manager' = FALSE
            /\ UNCHANGED closing
    /\ UNCHANGED << backup_initialized, server, shut_down, starting_height,
                    new_wallet, chain_vars, keychain, user_settings, start_task,
                    start_result, stores_open, callbacks,
                    state_changed_callback, checks, resend_vars, peer_vars >>

\* Lines 218-220: the close task has ended.
AwaitClosedResume ==
    /\ closing = "awaiting"
    /\ wsm_close_task = "done"
    /\ wsm_close_task' = "none"
    /\ wallet_state_manager' = FALSE
    /\ closing' = "idle"
    /\ UNCHANGED << backup_initialized, server, shut_down, starting_height,
                    new_wallet, chain_vars, keychain, user_settings, start_task,
                    start_result, stores_open, callbacks,
                    state_changed_callback, checks, resend_vars, peer_vars >>

(***************************************************************************)
(* The peer policy: has_full_node and the task that calls it.              *)
(***************************************************************************)
\* Lines 337-362: the value returned and the connections asked to close.
has_full_node(config, conns) ==
    IF config # NoPeer
    THEN LET full_node_resolved == PeerInfo(gethostbyname(config.host), config.port)
         IN  IF config \in conns \/ full_node_resolved \in conns
             THEN [ result |-> TRUE, close |-> conns ]
             ELSE [ result |-> FALSE, close |-> {} ]
    ELSE [ result |-> FALSE, close |-> {} ]

\* Lines 328-335: one turn of the loop of a task that has slept tries times.
CheckFullNode ==
    \E tries \in BagToSet(checks) :
       /\ IF shut_down \/ tries >= MaxTries
          THEN /\ checks' = checks (-) SetToBag({ tries })
               /\ UNCHANGED << closed, found, wallet_peers_open, errors >>
          ELSE IF ~server
          THEN /\ checks' = checks (-) SetToBag({ tries })
               /\ errors' = errors \cup { "AssertionError" }
               /\ UNCHANGED << closed, found, wallet_peers_open >>
          ELSE LET r == has_full_node(full_node_peer, connections)
               IN  /\ found' = IF r.result THEN "True" ELSE "False"
                   /\ closed' = r.close
                   /\ wallet_peers_open' = IF r.result THEN FALSE
                                           ELSE wallet_peers_open
                   /\ checks' = IF r.result
                                THEN checks (-) SetToBag({ tries })
                                ELSE (checks (-) SetToBag({ tries }))
                                         (+) SetToBag({ tries + 1 })
                   /\ UNCHANGED errors
       /\ UNCHANGED << wallet_state_manager, backup_initialized, server,
                       shut_down, starting_height, new_wallet, block_records,
                       lca, sync_mode, cached_blocks, future_block_hashes,
                       potential_blocks_received, potential_header_hashes,
                       header_hashes, header_hashes_error, proof_hashes, sync,
                       sync_outcome, runs, tasks, peer_headers, pushed, sent,
                       submitted, delivered, keychain, user_settings,
                       start_task, start_result, wsm_close_task, stores_open,
                       callbacks, state_changed_callback, closing, resend_vars,
                       full_node_peer, connections >>

(***************************************************************************)
(* The resend loop: _on_connect, _pending_tx_handler, _resend_queue.  A    *)
(* coroutine is a record of its kind, the peer it was called with, its     *)
(* position and the messages it still has to send; live records that the   *)
(* wallet was started, backup-initialized and not shut down at the call.   *)
(***************************************************************************)
SendTransaction(record) ==
    [ type |-> "send_transaction", bundle |-> record.spend_bundle,
      height |-> 0, hash |-> NoHash ]
RequestGenerator(action) ==
    [ type |-> "request_generator", bundle |-> "none",
      height |-> action.height, hash |-> action.header_hash ]

RECURSIVE MessagesOf(_)
MessagesOfAll(records) ==
    IF records = << >> THEN << >>
    ELSE << SendTransaction(Head(records)) >> \o MessagesOf(Tail(records))

\* Lines 291-306: one send_transaction per record that has a spend bundle.
MessagesOf(records) ==
    IF records = << >> THEN << >>
    ELSE IF Head(records).spend_bundle = "none" THEN MessagesOf(Tail(records))
    ELSE << SendTransaction(Head(records)) >> \o MessagesOf(Tail(records))

RECURSIVE ActionMessagesOf(_)
\* Lines 240-253: one request_generator per pending action of that name.
ActionMessagesOf(actions) ==
    IF actions = << >> THEN << >>
    ELSE IF Head(actions).name = "request_generator"
    THEN << RequestGenerator(Head(actions)) >> \o ActionMessagesOf(Tail(actions))
    ELSE ActionMessagesOf(Tail(actions))

\* Lines 285-290: when this is false _messages_to_resend returns [] without
\* reading the store.
Live == wallet_state_manager /\ backup_initialized /\ ~shut_down

\* Lines 235-236: _action_messages returns [] without reading the store.
NoActions == ~wallet_state_manager \/ ~backup_initialized

\* backup_initialized is a bool, never None.
BackupIsNone == FALSE

\* Lines 256-261, 265-270, 275-280.
ResendStopped ==
    shut_down \/ ~server \/ ~wallet_state_manager \/ BackupIsNone

\* A segment gives the coroutine's next record and the message it sent.
Sent(r, to, pc) ==
    [ next |-> [r EXCEPT !.pc = pc, !.msgs = Tail(r.msgs)],
      out |-> { [ msg |-> Head(r.msgs), to |-> to ] } ]
Ended(r) == [ next |-> [r EXCEPT !.pc = "done", !.msgs = << >>], out |-> {} ]
Waiting(r, pc) == [ next |-> [r EXCEPT !.pc = pc, !.msgs = << >>], out |-> {} ]

\* Lines 325-326: the loop of _on_connect.
on_connect_loop(r) ==
    IF r.msgs = << >> THEN Ended(r) ELSE Sent(r, r.peer, "sent")

\* Lines 324-326, resumed.
on_connect_resume(r) ==
    IF r.pc = "records"
    THEN on_connect_loop([r EXCEPT !.msgs = MessagesOf(tx_store)])
    ELSE on_connect_loop(r)

\* Lines 274-282.
resend_actions(r) ==
    IF r.msgs = << >> THEN Ended(r)
    ELSE IF ResendStopped THEN Ended(r)
    ELSE Sent(r, AllFullNodes, "action_sent")

\* Line 274: the call of _action_messages.
resend_then_actions(r) ==
    IF NoActions THEN Ended(r) ELSE Waiting(r, "actions")

\* Lines 264-272.
resend_transactions(r) ==
    IF r.msgs = << >> THEN resend_then_actions(r)
    ELSE IF ResendStopped THEN Ended(r)
    ELSE Sent(r, AllFullNodes, "sent")

\* Lines 255-282, resumed.
resend_queue_resume(r) ==
    IF r.pc = "new"
    THEN IF ResendStopped THEN Ended(r)
         ELSE IF ~Live THEN resend_then_actions(r)
         ELSE Waiting(r, "records")
    ELSE IF r.pc = "records"
    THEN resend_transactions([r EXCEPT !.msgs = MessagesOf(tx_store)])
    ELSE IF r.pc = "actions"
    THEN resend_actions([r EXCEPT !.msgs = ActionMessagesOf(action_store)])
    ELSE IF r.pc = "action_sent" THEN resend_actions(r)
    ELSE resend_transactions(r)

resend_segment(r) ==
    IF r.kind = "on_connect" THEN on_connect_resume(r) ELSE resend_queue_resume(r)

ResendFrame ==
    UNCHANGED << wallet_state_manager, backup_initialized, server, shut_down,
                 starting_height, new_wallet, chain_vars, life_vars, tx_store,
                 action_store, peer_vars >>

\* Lines 321-324: a full node has connected.
OnConnect ==
    /\ Len(resend) < MaxCalls
    /\ \E peer \in connections :
          LET r == [ kind |-> "on_connect", peer |-> peer, pc |-> "records",
                     msgs |-> << >>, live |-> Live ]
          IN  resend' = Append(resend,
                  IF ~wallet_state_manager \/ ~backup_initialized THEN Ended(r).next
                  ELSE IF ~Live THEN Ended(r).next
                  ELSE r)
    /\ UNCHANGED outbox
    /\ ResendFrame

\* Lines 229-232: the state manager reports a pending transaction.
PendingTx ==
    /\ Len(resend) < MaxCalls
    /\ "pending" \in callbacks
    /\ IF ~wallet_state_manager \/ ~backup_initialized
       THEN UNCHANGED resend
       ELSE resend' = Append(resend,
                [ kind |-> "resend_queue", peer |-> AllFullNodes, pc |-> "new",
                  msgs |-> << >>, live |-> Live ])
    /\ UNCHANGED outbox
    /\ ResendFrame

ResumeResend ==
    /\ \E k \in 1..Len(resend) :
          /\ resend[k].pc # "done"
          /\ LET seg == resend_segment(resend[k])
             IN  /\ resend' = [resend EXCEPT ![k] = seg.next]
                 /\ outbox' = outbox (+) SetToBag(
                        { [ type |-> o.msg.type, bundle |-> o.msg.bundle,
                            height |-> o.msg.height, hash |-> o.msg.hash,
                            to |-> o.to, call |-> k ] : o \in seg.out })
    /\ ResendFrame

(***************************************************************************)
(* A wallet node as constructed (lines 85-118) and given its server, with  *)
(* a pinned full node that is connected next to another one.               *)
(***************************************************************************)
InitStart ==
    /\ wallet_state_manager = FALSE
    /\ backup_initialized = FALSE
    /\ server = TRUE
    /\ shut_down = FALSE
    /\ block_records = 0..0
    /\ lca = Main(0)
    /\ sync_mode = FALSE
    /\ cached_blocks = {}
    /\ future_block_hashes = EmptyMap
    /\ potential_blocks_received = EmptyMap
    /\ potential_header_hashes = EmptyMap
    /\ header_hashes = << >>
    /\ header_hashes_error = FALSE
    /\ proof_hashes = << >>
    /\ starting_height = 0
    /\ new_wallet = FALSE
    /\ sync = SyncIdle
    /\ sync_outcome = "none"
    /\ runs = 0
    /\ tasks = EmptyBag
    /\ peer_headers = {}
    /\ pushed = {}
    /\ sent = {}
    /\ submitted = {}
    /\ delivered = {}
    /\ errors = {}
    /\ keychain \in { [ i \in 1..n |-> i ] : n \in 0..NumKeys }
    /\ user_settings \in { {}, { 1 } }
    /\ start_task = StartIdle
    /\ start_result = "none"
    /\ wsm_close_task = "none"
    /\ stores_open = FALSE
    /\ callbacks = {}
    /\ state_changed_callback \in BOOLEAN
    /\ checks = EmptyBag
    /\ closing = "idle"
    /\ tx_store = << >>
    /\ action_store = << >>
    /\ resend = << >>
    /\ outbox = EmptyBag
    /\ full_node_peer = Pinned
    /\ connections = { Pinned, Other }
    /\ closed = {}
    /\ wallet_peers_open = TRUE
    /\ found = "none"

NextStart ==
    \/ Start
    \/ StartCreated
    \/ StartDecided
    \/ StartRefused
    \/ Close
    \/ CloseAllStores
    \/ AwaitClosed
    \/ AwaitClosedResume
    \/ CheckFullNode

SpecStart == InitStart /\ [][NextStart]_vars

\* The same wallet with every key in its keychain and transactions to resend.
InitResend ==
    /\ wallet_state_manager = FALSE
    /\ backup_initialized = FALSE
    /\ server = TRUE
    /\ shut_down = FALSE
    /\ block_records = 0..0
    /\ lca = Main(0)
    /\ sync_mode = FALSE
    /\ cached_blocks = {}
    /\ future_block_hashes = EmptyMap
    /\ potential_blocks_received = EmptyMap
    /\ potential_header_hashes = EmptyMap
    /\ header_hashes = << >>
    /\ header_hashes_error = FALSE
    /\ proof_hashes = << >>
    /\ starting_height = 0
    /\ new_wallet = FALSE
    /\ sync = SyncIdle
    /\ sync_outcome = "none"
    /\ runs = 0
    /\ tasks = EmptyBag
    /\ peer_headers = {}
    /\ pushed = {}
    /\ sent = {}
    /\ submitted = {}
    /\ delivered = {}
    /\ errors = {}
    /\ keychain = [ i \in 1..NumKeys |-> i ]
    /\ user_settings = {}
    /\ start_task = StartIdle
    /\ start_result = "none"
    /\ wsm_close_task = "none"
    /\ stores_open = FALSE
    /\ callbacks = {}
    /\ state_changed_callback = FALSE
    /\ checks = EmptyBag
    /\ closing = "idle"
    /\ tx_store = TxRecords
    /\ action_store \in ActionStores \ { << >> }
    /\ resend = << >>
    /\ outbox = EmptyBag
    /\ full_node_peer = Pinned
    /\ connections = { Pinned, Other }
    /\ closed = {}
    /\ wallet_peers_open = TRUE
    /\ found = "none"

NextResend ==
    \/ StartByKey
    \/ StartCreated
    \/ StartDecided
    \/ StartRefused
    \/ Close
    \/ CloseAllStores
    \/ AwaitClosed
    \/ AwaitClosedResume
    \/ OnConnect
    \/ PendingTx
    \/ ResumeResend
    \/ CheckFullNode

SpecResend == InitResend /\ [][NextResend]_vars

(***************************************************************************)
(* A started wallet to which full nodes connect, until it is closed.       *)
(***************************************************************************)
InitConnect ==
    /\ keychain = << 1 >>
    /\ user_settings = { 1 }
    /\ start_task = StartIdle
    /\ start_result = "True"
    /\ wsm_close_task = "none"
    /\ stores_open = TRUE
    /\ callbacks = { "pending" }
    /\ state_changed_callback = FALSE
    /\ checks = EmptyBag
    /\ closing = "idle"
    /\ wallet_state_manager = TRUE
    /\ backup_initialized = TRUE
    /\ server = TRUE
    /\ shut_down = FALSE
    /\ block_records = 0..0
    /\ lca = Main(0)
    /\ sync_mode = FALSE
    /\ cached_blocks = {}
    /\ future_block_hashes = EmptyMap
    /\ potential_blocks_received = EmptyMap
    /\ potential_header_hashes = EmptyMap
    /\ header_hashes = << >>
    /\ header_hashes_error = FALSE
    /\ proof_hashes = << >>
    /\ starting_height = 0
    /\ new_wallet = FALSE
    /\ sync = SyncIdle
    /\ sync_outcome = "none"
    /\ runs = 0
    /\ tasks = EmptyBag
    /\ peer_headers = {}
    /\ pushed = {}
    /\ sent = {}
    /\ submitted = {}
    /\ delivered = {}
    /\ errors = {}
    /\ tx_store \in TxStores
    /\ action_store \in ActionStores
    /\ resend = << >>
    /\ outbox = EmptyBag
    /\ full_node_peer = NoPeer
    /\ connections = { Pinned, Other }
    /\ closed = {}
    /\ wallet_peers_open = TRUE
    /\ found = "none"

NextConnect ==
    \/ OnConnect
    \/ PendingTx
    \/ ResumeResend
    \/ Close
    \/ CloseAllStores
    \/ AwaitClosed
    \/ AwaitClosedResume

SpecConnect == InitConnect /\ [][NextConnect]_vars


(***************************************************************************)
(* A started wallet whose peer check is about to run, while full nodes     *)
(* connect to the server and disconnect from it.                           *)
(***************************************************************************)
PeerFrame ==
    UNCHANGED << wallet_state_manager, backup_initialized, server, shut_down,
                 starting_height, new_wallet, chain_vars, life_vars,
                 resend_vars, full_node_peer, closed, wallet_peers_open, found >>

Connect ==
    /\ \E peer \in PeerInfos \ connections : connections' = connections \cup { peer }
    /\ PeerFrame

Disconnect ==
    /\ \E peer \in connections : connections' = connections \ { peer }
    /\ PeerFrame

InitPeers ==
    /\ wallet_state_manager = TRUE
    /\ backup_initialized = TRUE
    /\ server = TRUE
    /\ shut_down = FALSE
    /\ block_records = 0..0
    /\ lca = Main(0)
    /\ sync_mode = FALSE
    /\ cached_blocks = {}
    /\ future_block_hashes = EmptyMap
    /\ potential_blocks_received = EmptyMap
    /\ potential_header_hashes = EmptyMap
    /\ header_hashes = << >>
    /\ header_hashes_error = FALSE
    /\ proof_hashes = << >>
    /\ starting_height = 0
    /\ new_wallet = FALSE
    /\ sync = SyncIdle
    /\ sync_outcome = "none"
    /\ runs = 0
    /\ tasks = EmptyBag
    /\ peer_headers = {}
    /\ pushed = {}
    /\ sent = {}
    /\ submitted = {}
    /\ delivered = {}
    /\ errors = {}
    /\ keychain = << 1 >>
    /\ user_settings = { 1 }
    /\ start_task = StartIdle
    /\ start_result = "True"
    /\ wsm_close_task = "none"
    /\ stores_open = TRUE
    /\ callbacks = { "pending" }
    /\ state_changed_callback = FALSE
    /\ checks = SetToBag({ 0 })
    /\ closing = "idle"
    /\ tx_store = << >>
    /\ action_store = << >>
    /\ resend = << >>
    /\ outbox = EmptyBag
    /\ full_node_peer \in { NoPeer, Pinned, PinnedByAddress }
    /\ connections \in SUBSET PeerInfos
    /\ closed = {}
    /\ wallet_peers_open = TRUE
    /\ found = "none"

NextPeers == CheckFullNode \/ Connect \/ Disconnect \/ Close

SpecPeers == InitPeers /\ [][NextPeers]_vars

(***************************************************************************)
(* A sync and the header handler racing a shutdown: close, the store close *)
(* task it spawns, then await_closed.                                      *)
(***************************************************************************)
NextShutdown ==
    \/ NextSync
    \/ CloseAllStores
    \/ (shut_down /\ AwaitClosed)
    \/ AwaitClosedResume

SpecShutdown == InitSync /\ [][NextShutdown]_vars

(***************************************************************************)
(* C13.  Sync is idempotent: a _sync run that follows a run completed      *)
(* normally, against the same skeleton, finds the fork point at the        *)
(* target, submits no block record, sends no request_header and leaves the *)
(* committed chain unchanged.                                              *)
(***************************************************************************)
RerunAfterCompletion ==
    /\ sync.pc # "idle"
    /\ sync.prev = "completed"
    /\ header_hashes \in { << >>, sync.hashes0 }

CallMessages(k) == { msg \in BagToSet(outbox) : msg.call = k }

ExpectedOnConnect(k, bundle) ==
    [ type |-> "send_transaction", bundle |-> bundle, height |-> 0,
      hash |-> NoHash, to |-> resend[k].peer, call |-> k ]

BundleRecords(bundle) ==
    { i \in 1..Len(tx_store) : tx_store[i].spend_bundle = bundle }

Bundles == { TxRecords[i].spend_bundle : i \in 1..Len(TxRecords) } \ { "none" }

OnConnectCalls == { k \in 1..Len(resend) : resend[k].kind = "on_connect" }

ResendOnConnect ==
    \A k \in OnConnectCalls :
       /\ \A msg \in CallMessages(k) :
             /\ msg.type = "send_transaction"
             /\ msg.to = resend[k].peer
             /\ msg.bundle # "none"
             /\ BundleRecords(msg.bundle) # {}
       /\ \A bundle \in Bundles :
             /\ CopiesIn(ExpectedOnConnect(k, bundle), outbox)
                    <= Cardinality(BundleRecords(bundle))
             /\ (resend[k].pc = "done" /\ resend[k].live)
                    => CopiesIn(ExpectedOnConnect(k, bundle), outbox)
                           = Cardinality(BundleRecords(bundle))

TwoBundlesResentToPeer ==
    \E k \in OnConnectCalls :
       /\ resend[k].pc = "done" /\ resend[k].live
       /\ tx_store = TxRecords
       /\ Cardinality(CallMessages(k)) = 2
       /\ BagCardinality(outbox) = 2

(***************************************************************************)
(* C16.  Pending actions are replayed on connect: an _on_connect that has  *)
(* run to its end for a started wallet has emitted a request_generator for *)
(* every pending action named request_generator.                           *)
(***************************************************************************)
ActionsReplayedOnConnect ==
    \A k \in OnConnectCalls :
       (resend[k].pc = "done" /\ resend[k].live)
           => \A a \in { action_store[i] : i \in 1..Len(action_store) } :
                 a.name = "request_generator"
                     => \E msg \in CallMessages(k) :
                           /\ msg.type = "request_generator"
                           /\ msg.height = a.height
                           /\ msg.hash = a.header_hash

(***************************************************************************)
(* C17.  Resend stops on shutdown: no step taken while shut_down is set,   *)
(* or while the server or the state manager handle is cleared, emits a     *)
(* send_transaction or a request_generator.                                *)
(***************************************************************************)
ResendStopsOnShutdown ==
    [][ (shut_down \/ ~server \/ ~wallet_state_manager)
            => outbox' = outbox ]_vars

(***************************************************************************)
(* C18.  No sending before the backup decision: no step taken while        *)
(* backup_initialized is false emits a send_transaction or a               *)
(* request_generator, and in such a state _sync and _respond_header        *)
(* return at once, sending nothing and changing nothing.                   *)
(***************************************************************************)
EntryReturns ==
    /\ sync_entry(Core) = [Core EXCEPT !.outcome = "returned"]
    /\ \A b \in { Main(1), Sib(1) } : respond_header_entry(Core, b) = Core

NoSendingBeforeBackupDecision ==
    [][ ~backup_initialized => (outbox' = outbox /\ EntryReturns) ]_vars

(***************************************************************************)
(* C19.  Pinned-peer policy: a call of has_full_node with the configured   *)
(* full node among the connections returns true and asks to close exactly  *)
(* the full-node connections that are not the pinned peer; with the pinned *)
(* peer not connected, or none configured, it returns false and closes     *)
(* nothing.                                                                *)
(***************************************************************************)
IsPinned(peer) ==
    /\ full_node_peer # NoPeer
    /\ \/ peer = full_node_peer
       \/ peer = PeerInfo(gethostbyname(full_node_peer.host), full_node_peer.port)

PinnedConnected == \E peer \in connections : IsPinned(peer)

HasFullNodeCalled ==
    /\ ~shut_down /\ server
    /\ checks' # checks
    /\ \E tries \in BagToSet(checks) : tries < MaxTries

PinnedPeerPolicy ==
    [][ HasFullNodeCalled
            => IF PinnedConnected
               THEN /\ found' = "True"
                    /\ closed' = { peer \in connections : ~IsPinned(peer) }
               ELSE /\ found' = "False"
                    /\ closed' = {} ]_vars

(***************************************************************************)
(* C20.  Start refuses without a backup decision: a _start that finds the  *)
(* database of its key not user-initialized and was called with new_wallet *)
(* false, skip_backup_import false and no backup file returns false with   *)
(* the stores closed, the state manager handle none and backup_initialized *)
(* false, registers no callback and spawns no peer-check task; with no     *)
(* matching private key _start returns false and creates no state manager. *)
(***************************************************************************)
NoDecision ==
    /\ start_task.key \notin user_settings
    /\ ~start_task.new_wallet
    /\ ~start_task.skip_backup_import
    /\ start_task.backup_file = NoFile

NoMatchingKey(fingerprint) ==
    \/ Len(keychain) = 0
    \/ fingerprint # NoFingerprint /\ ~InKeychain(fingerprint)

StartRefusesWithoutDecision ==
    [][ /\ (start_task.pc = "create" /\ start_task'.pc # "create" /\ NoDecision)
            => /\ start_task'.pc = "closing"
               /\ ~backup_initialized'
               /\ callbacks' = {}
               /\ checks' = checks
               /\ start_result' = "running"
        /\ (start_task.pc = "closing" /\ start_task'.pc # "closing")
            => /\ start_result' = "False"
               /\ ~stores_open'
               /\ ~wallet_state_manager'
               /\ ~backup_initialized'
               /\ callbacks' = {}
               /\ checks' = checks
        /\ \A fingerprint \in { NoFingerprint } \cup Fingerprints :
              NoMatchingKey(fingerprint)
                  => get_key_for_fingerprint(fingerprint) = NoFingerprint
        /\ (start_task.pc = "idle" /\ start_task'.pc = "idle"
                /\ start_result # "False" /\ start_result' = "False")
            => /\ ~wallet_state_manager /\ ~wallet_state_manager'
               /\ stores_open' = stores_open
        /\ start_task'.pc = "create" => InKeychain(start_task'.key) ]_vars

StartRefused_NoDecision ==
    /\ start_task.pc = "idle"
    /\ start_result = "False"
    /\ start_task.key \in Fingerprints
    /\ NoDecision
    /\ ~wallet_state_manager /\ ~stores_open /\ ~backup_initialized

(***************************************************************************)
(* C21.  Every sync-scoped map (header_hashes, proof_hashes,               *)
(* potential_blocks_received, potential_header_hashes) is empty when a     *)
(* _sync run has started and sent its first request.                       *)
(***************************************************************************)
SyncMapsClearedAtStart ==
    [][ (sync.pc = "idle" /\ sync'.pc # "idle")
            => /\ header_hashes' = << >>
               /\ proof_hashes' = << >>
               /\ potential_blocks_received' = EmptyMap
               /\ potential_header_hashes' = EmptyMap ]_vars

(***************************************************************************)
(* C22.  Shutdown racing in-flight work is never an error: once shut_down  *)
(* is set, a resumed _respond_header, _block_finished or _sync returns; it *)
(* raises nothing (in particular it does not use the cleared state manager *)
(* handle), sends nothing and submits nothing.                             *)
(***************************************************************************)
ShutdownNeverAnError ==
    [][ shut_down
            => /\ errors' = errors
               /\ sent' = sent
               /\ submitted' = submitted ]_vars

(***************************************************************************)
(* A sync against a peer that also announces a block far above the         *)
(* wallet's chain: short_sync_threshold above the committed tip before     *)
(* the sync, nearer once the sync has moved the LCA.                       *)
(***************************************************************************)
FarHeader == Main(LocalTip + short_sync_threshold)

InitAncestor ==
    /\ StartedLife
    /\ wallet_state_manager = TRUE
    /\ backup_initialized = TRUE
    /\ server = TRUE
    /\ shut_down = FALSE
    /\ block_records = 0..LocalTip
    /\ lca = Main(LocalTip)
    /\ new_wallet = FALSE
    /\ starting_height = 0
    /\ sync_mode = FALSE
    /\ cached_blocks = {}
    /\ future_block_hashes = EmptyMap
    /\ potential_blocks_received = EmptyMap
    /\ potential_header_hashes = EmptyMap
    /\ header_hashes = << >>
    /\ header_hashes_error = FALSE
    /\ proof_hashes = << >>
    /\ sync = SyncIdle
    /\ sync_outcome = "none"
    /\ runs = 0
    /\ tasks = EmptyBag
    /\ pushed = { FarHeader }
    /\ peer_headers = SyncHeaders \cup pushed
    /\ sent = {}
    /\ submitted = {}
    /\ delivered = {}
    /\ errors = {}

SpecAncestor == InitAncestor /\ [][NextPushed]_vars

(***************************************************************************)
(* C23.  Ancestor-request policy: in every reachable state, a turn of      *)
(* _respond_header on a block that is not committed, of height at least 1  *)
(* and whose prev hash is not committed, commits and submits nothing,      *)
(* records future_block_hashes[prev_hash] = header_hash, and sends         *)
(* request_header(height - 1, prev_hash) exactly when the state manager    *)
(* is not in sync mode and height - lca.height < 15; otherwise (so always  *)
(* in sync mode) it sends nothing.                                         *)
(***************************************************************************)
PrevUncommitted(b) ==
    /\ HandlerActive
    /\ b \notin block_records /\ Height(b) >= 1
    /\ PrevHash(b) \notin block_records

AncestorRequestPolicy ==
    \A b \in peer_headers :
        PrevUncommitted(b) =>
            LET m == respond_header_entry(Core, b)
                asked == ~sync_mode /\ Height(b) - Height(lca) < 15
            IN  /\ m.br = block_records /\ m.lca = lca
                /\ m.submitted = submitted
                /\ m.err = ""
                /\ PrevHash(b) \in DOMAIN m.future
                /\ m.future[PrevHash(b)] = b
                /\ (m.pc = "send") = asked
                /\ m.pc \in {"send", "done"}
                /\ m.sent = IF asked
                            THEN sent \cup {RequestHeader(Height(b) - 1, PrevHash(b))}
                            ELSE sent

\* The far block was handled before any sync, short_sync_threshold above the
\* LCA: cached and recorded under its parent, the parent not requested.
FarBlockNotRequested ==
    /\ FarHeader \in delivered
    /\ FarHeader \in cached_blocks /\ FarHeader \notin block_records
    /\ PrevHash(FarHeader) \in DOMAIN future_block_hashes
    /\ future_block_hashes[PrevHash(FarHeader)] = FarHeader
    /\ runs = 0 /\ ~sync_mode
    /\ Height(FarHeader) - Height(lca) >= short_sync_threshold
    /\ RequestHeader(Height(FarHeader) - 1, PrevHash(FarHeader)) \notin sent

(***************************************************************************)
(* A wallet in steady state on a short chain, and a peer that sends the    *)
(* two blocks above it, an invalid competing block of height 1 and that    *)
(* block's child.                                                          *)
(***************************************************************************)
RejectedHeaders ==
    { Main(LocalTip + 1), Main(LocalTip + 2), Sib(1), SibChild(2) }

InitRejected ==
    /\ StartedLife
    /\ wallet_state_manager = TRUE
    /\ backup_initialized = TRUE
    /\ server = TRUE
    /\ shut_down = FALSE
    /\ block_records = 0..LocalTip
    /\ lca = Main(LocalTip)
    /\ sync_mode = FALSE
    /\ cached_blocks = {}
    /\ future_block_hashes = EmptyMap
    /\ potential_blocks_received = EmptyMap
    /\ potential_header_hashes = EmptyMap
    /\ header_hashes = << >>
    /\ header_hashes_error = FALSE
    /\ proof_hashes = << >>
    /\ starting_height = 0
    /\ new_wallet = FALSE
    /\ sync = SyncIdle
    /\ sync_outcome = "none"
    /\ runs = 0
    /\ tasks = EmptyBag
    /\ peer_headers = RejectedHeaders
    /\ pushed = RejectedHeaders
    /\ sent = {}
    /\ submitted = {}
    /\ delivered = {}
    /\ errors = {}

SpecRejected == InitRejected /\ [][NextSteady]_vars

(***************************************************************************)
(* C24.  Rejected blocks stop the chain walk: when receive_block answers   *)
(* DISCONNECTED_BLOCK, INVALID_BLOCK or ALREADY_HAVE_BLOCK, the handler    *)
(* that awaited it ends there: nothing is evicted from cached_blocks,      *)
(* nothing is committed, submitted or sent, and no turn for a successor    *)
(* recorded in future_block_hashes follows.                                *)
(***************************************************************************)
Rejected(r) ==
    /\ r.pc = "receive"
    /\ ~Added(receive_block_result(block_records, lca, r.resp))

SubmittedHashes == { x.hash : x \in submitted }

PhaseA == sync.pc \in {"send_hashes", "sleep_hashes"}

PhaseAStep == PhaseA /\ sync' # sync

PhaseAGuardsSkeleton ==
    [][ PhaseAStep
            => /\ (sync'.pc \notin {"idle", "send_hashes", "sleep_hashes"}
                      => Len(header_hashes') > 0)
               /\ (header_hashes_error /\ ~shut_down
                      => sync'.pc = "idle" /\ sync_outcome' = "ValueError")
               /\ (sync_outcome' = "TimeoutError" => Len(header_hashes) = 0)
               /\ (sync_outcome' \in {"ValueError", "TimeoutError"}
                      => /\ \A msg \in sent' \ sent : msg.type # "request_header"
                         /\ submitted' = submitted
                         /\ block_records' = block_records) ]_vars

(***************************************************************************)
(* The sync of a wallet with a configured starting height (its run goes    *)
(* through the proof wait, the samples and the checkpoints) against a      *)
(* peer that also sends, at the height of a checkpoint, a block that is    *)
(* never committed: one with coins of the wallet, which stops at           *)
(* request_additions, or one whose parent never arrives.                   *)
(***************************************************************************)
NeverCommitted ==
    { { Sib(OldHeight + 2) }, { SibChild(OldHeight + 2) } }

InitStalled ==
    /\ StartedLife
    /\ wallet_state_manager = TRUE
    /\ backup_initialized = TRUE
    /\ server = TRUE
    /\ shut_down = FALSE
    /\ block_records = 0..1
    /\ lca = Main(1)
    /\ new_wallet = FALSE
    /\ starting_height = ConfiguredStart
    /\ sync_mode = FALSE
    /\ cached_blocks = {}
    /\ future_block_hashes = EmptyMap
    /\ potential_blocks_received = EmptyMap
    /\ potential_header_hashes = EmptyMap
    /\ header_hashes = << >>
    /\ header_hashes_error = FALSE
    /\ proof_hashes = << >>
    /\ sync = SyncIdle
    /\ sync_outcome = "none"
    /\ runs = 0
    /\ tasks = EmptyBag
    /\ pushed \in NeverCommitted
    /\ peer_headers = SyncHeaders \cup pushed
    /\ sent = {}
    /\ submitted = {}
    /\ delivered = {}
    /\ errors = {}

(***************************************************************************)
(* The event loop's guarantee: a suspended _sync is resumed (its sleeps    *)
(* and wait_for timeouts expire, the sends and receive_block it awaits     *)
(* return).  Nothing is assumed of the peer or of the handlers.            *)
(* This is WF_vars(ResumeSync) with ENABLED <<ResumeSync>>_vars written    *)
(* as the state predicate it equals, sync.pc # "idle" (ResumeChangesSync). *)
(***************************************************************************)
ResumeChangesSync ==
    sync.pc # "idle" =>
        \A late \in Lateness, s \in Draws : sync_segment(Core, late, s).y # sync

SyncResumed == []<>(sync.pc = "idle") \/ []<><<ResumeSync>>_vars

SpecSyncFair == InitStalled /\ [][NextSync]_vars /\ SyncResumed

(***************************************************************************)
(* C26.  Every _sync run terminates, whatever the peer does: a run that    *)
(* has started eventually ends (completed, returned, or failed), and a     *)
(* run that ends with TimeoutError while waiting for a sample or a         *)
(* checkpoint has slept for more than 50 s on that sample or checkpoint.   *)
(***************************************************************************)
Fetching ==
    sync.pc \in {"sample_send", "sample_wait", "batch_send", "batch_wait",
                 "short_sleep", "handler"}

SyncTerminates ==
    /\ (sync.pc # "idle") ~> (sync.pc = "idle")
    /\ [][ (Fetching /\ sync_outcome' = "TimeoutError")
                => sync.total + sleep_interval > timeout ]_vars

\* A run ended with TimeoutError on a checkpoint whose header had arrived
\* (a block of the peer that is never committed).
TimedOutOnUncommittedBlock ==
    /\ sync.pc = "idle" /\ sync_outcome = "TimeoutError"
    /\ \E b \in pushed :
          /\ b \in delivered /\ b \notin block_records
          /\ Height(b) \in DOMAIN potential_header_hashes
          /\ potential_header_hashes[Height(b)] = b
          /\ PrevHash(Main(Height(b))) \in block_records

(***************************************************************************)
(* A wallet in steady state on a short chain, a peer that sends the two    *)
(* blocks above it and an old competing block with its child, and the      *)
(* event loop's guarantee: a suspended handler is resumed (the state       *)
(* manager calls it awaits return).                                        *)
(***************************************************************************)
WalkHeaders ==
    { Main(LocalTip + 1), Main(LocalTip + 2), Sib(LocalTip), SibChild(LocalTip + 1) }

InitWalk ==
    /\ StartedLife
    /\ wallet_state_manager = TRUE
    /\ backup_initialized = TRUE
    /\ server = TRUE
    /\ shut_down = FALSE
    /\ block_records = 0..LocalTip
    /\ lca = Main(LocalTip)
    /\ sync_mode = FALSE
    /\ cached_blocks = {}
    /\ future_block_hashes = EmptyMap
    /\ potential_blocks_received = EmptyMap
    /\ potential_header_hashes = EmptyMap
    /\ header_hashes = << >>
    /\ header_hashes_error = FALSE
    /\ proof_hashes = << >>
    /\ starting_height = 0
    /\ new_wallet = FALSE
    /\ sync = SyncIdle
    /\ sync_outcome = "none"
    /\ runs = 0
    /\ tasks = EmptyBag
    /\ peer_headers = WalkHeaders
    /\ pushed = WalkHeaders
    /\ sent = {}
    /\ submitted = {}
    /\ delivered = {}
    /\ errors = {}

SpecWalkFair == InitWalk /\ [][NextSteady]_vars /\ WF_vars(ResumeHandler)

(***************************************************************************)
(* C27.  The handler loop terminates.  A turn of _block_finished that      *)
(* goes on to a deferred successor has just committed its own block,       *)
(* which was not committed before, and the successor is another block,     *)
(* not committed; the committed set never shrinks.  So an invocation       *)
(* takes at most one turn per uncommitted block, and under resumption of   *)
(* the suspended handlers every handler has returned in the end.           *)
(***************************************************************************)
LoopGoesOn(r) == r.pc = "receive" /\ HandlerSegment(r).pc # "done"

CachedAfterCall(b) ==
    IF receive_block_result(block_records, lca, b) = "ADDED_TO_HEAD" /\ ~sync_mode
    THEN Evict(Core, b).cached
    ELSE cached_blocks

FindsSuccessor(r) ==
    /\ r.pc = "receive"
    /\ Added(receive_block_result(block_records, lca, r.resp))
    /\ wallet_state_manager
    /\ r.resp \in DOMAIN future_block_hashes

SuccessorStillCached ==
    \A r \in BagToSet(tasks) :
        FindsSuccessor(r) => future_block_hashes[r.resp] \in CachedAfterCall(r.resp)

(***************************************************************************)
(* C29.  Sync indexes stay in range: no step of _sync reads                *)
(* header_hashes[h] with h >= len(header_hashes) or proof_hashes[h] with   *)
(* h >= len(proof_hashes), that is, none ends in IndexError.  (The only    *)
(* other IndexError of _sync, random.choices on an empty list of           *)
(* candidate heights, is raised by the step that leaves the proof wait     *)
(* and is set aside.)                                                      *)
(***************************************************************************)
EmptySample ==
    /\ sync.pc \in {"send_proofs", "sleep_proofs"}
    /\ Candidates(sync.fork, sync.tip) = {}

SyncIndexesInRange ==
    [][ (sync.pc # "idle" /\ ~EmptySample) => sync_outcome' # "IndexError" ]_vars
====
